---- MODULE Spec2Model ----
(***************************************************************************)
(* Transmeet backend: Zoom OAuth token lifecycle, recording import,        *)
(* meeting sync / CSV upload and transcript analysis, modelled from the    *)
(* route handlers and services of the repository.                          *)
(***************************************************************************)
EXTENDS Integers, Sequences, FiniteSets, TLC

(* ------------------------------ bounds -------------------------------- *)
MaxTime == 3
MaxTokens == 6
MaxExpiresIn == 2
NumUsers == 1
NumCalls == 2

NULL == 0

Users == 1..NumUsers
Calls == 1..NumCalls
ExpiresIns == 1..MaxExpiresIn

VARIABLES
  now,        \* wall clock (Date.now / new Date())
  users,      \* User rows: Zoom credential columns
  provRT,     \* provider side: the refresh token currently valid per user
  rotated,    \* provider side: refresh tokens rotated out by an accepted refresh
  nextTok,    \* provider side: next token value to issue
  call,       \* in-flight getValidAccessToken calls
  meetings,   \* Meeting rows of the import pipeline: recordingUrl per meeting
  provFiles,  \* provider side: recording_files list per meeting
  recordings, \* Recording rows
  nextRecId,  \* next Recording primary key
  files,      \* uploads/recordings: file name -> content
  written,    \* every file name fs.writeFile has completed for
  imp,        \* in-flight import requests
  tasks,      \* Task rows
  nextTaskId, \* next Task primary key
  an,         \* in-flight analyze requests
  openaiKey,  \* process.env.OPENAI_API_KEY is set
  sy,         \* in-flight sync and CSV upload requests
  exFiles,    \* exports directory: file name -> content
  exports,    \* Export rows
  ex,         \* in-flight export requests
  acct,       \* User rows: Zoom connection columns
  jwts,       \* user ids for which a session token was issued
  issued,     \* state parameters handed out by GET /auth/zoom
  nextGrant,  \* provider side: next token pair to issue
  rf,         \* users with a token refresh between its read and its update
  gate,       \* in-flight requests to a Zoom-gated endpoint
  cb,         \* the last POST /auth/zoom/callback request
  sh,         \* in-flight share requests
  zc,         \* in-flight requests that call the Zoom client
  cmp,        \* a single and a batch import run from the same state
  disk,       \* stored recording files: name -> content and mtime
  recRows,    \* Recording rows of the storage handlers
  clock,      \* Date.now() of the storage handlers
  nextFile,   \* next file content / Recording id
  op,         \* the storage request in progress
  su,         \* User rows of the session service: verification state and OTP
  otpNow,     \* Date.now() of the session service
  vr,         \* verifyOTP requests
  toks,       \* session tokens signed so far
  rr          \* the last answer of POST /auth/refresh

tokenVars == <<now, users, provRT, rotated, nextTok, call>>
importVars == <<meetings, provFiles, recordings, nextRecId, files, written, imp>>

importIdleVars == <<provFiles, recordings, nextRecId, files, written, imp>>

analyzeVars == <<tasks, nextTaskId, an>>

syncVars == <<openaiKey, sy>>

exportVars == <<exFiles, exports, ex>>

\* the state of the handlers modelled after the first four groups
authVars == <<acct, jwts, issued, nextGrant, rf, gate, cb>>

shareVars == <<sh>>

clientVars == <<zc>>

compareVars == <<cmp>>

storeVars == <<disk, recRows, clock, nextFile, op>>

sessVars == <<su, otpNow, vr, toks, rr>>

extraVars == <<exportVars, authVars, shareVars, clientVars, compareVars, storeVars, sessVars>>

vars == <<tokenVars, importVars, analyzeVars, syncVars, extraVars>>

(* ---------------------- OAuth token manager --------------------------- *)

NoUserTokens == [accessToken |-> NULL, refreshToken |-> NULL, tokenExpiresAt |-> NULL]

\* ZoomTokenResponse, before the provider has answered
NoTokenResponse == [access_token |-> NULL, refresh_token |-> NULL, expires_in |-> 0]

IdleCall == [pc |-> "idle", user |-> NULL, at |-> 0, snap |-> NoUserTokens,
             sent |-> NULL, sentStale |-> FALSE, tokens |-> NoTokenResponse,
             result |-> "none", ret |-> NULL, retExpiry |-> NULL,
             wrote |-> NoUserTokens]

\* user.tokenExpiresAt && user.tokenExpiresAt <= new Date()
IsExpiredStrict(expiresAt, t) == expiresAt # NULL /\ expiresAt < t

IsExpired(expiresAt, t) == expiresAt # NULL /\ expiresAt <= t

\* the row written by prisma.user.update after a refresh
KeepOldRefreshToken(old, tokens, t) ==
  [accessToken |-> tokens.access_token,
   refreshToken |-> old.refreshToken,
   tokenExpiresAt |-> t + tokens.expires_in]

RefreshedUserRow(old, tokens, t) ==
  [accessToken |-> tokens.access_token,
   refreshToken |-> tokens.refresh_token,
   tokenExpiresAt |-> t + tokens.expires_in]

TokenInit ==
  /\ now = 0
  /\ users = [u \in Users |-> NoUserTokens]
  /\ provRT = [u \in Users |-> NULL]
  /\ rotated = [u \in Users |-> {}]
  /\ nextTok = 1
  /\ call = [c \in Calls |-> IdleCall]

Tick ==
  /\ now < MaxTime
  /\ now' = now + 1
  /\ UNCHANGED <<users, provRT, rotated, nextTok, call>>
  /\ UNCHANGED <<importVars, analyzeVars, syncVars, extraVars>>

\* POST /auth/zoom/callback: exchange the code, store the tokens on the user
HandleZoomCallback(u) ==
  /\ nextTok + 1 <= MaxTokens
  /\ \E e \in ExpiresIns :
       users' = [users EXCEPT ![u] =
                   [accessToken |-> nextTok, refreshToken |-> nextTok + 1,
                    tokenExpiresAt |-> now + e]]
  /\ provRT' = [provRT EXCEPT ![u] = nextTok + 1]
  /\ nextTok' = nextTok + 2
  /\ UNCHANGED <<now, rotated, call>>
  /\ UNCHANGED <<importVars, analyzeVars, syncVars, extraVars>>

\* POST /auth/zoom/disconnect
ZoomDisconnect(u) ==
  /\ users[u].accessToken # NULL
  /\ users' = [users EXCEPT ![u] = NoUserTokens]
  /\ UNCHANGED <<now, provRT, rotated, nextTok, call>>
  /\ UNCHANGED <<importVars, analyzeVars, syncVars, extraVars>>

\* getValidAccessToken: findUnique, the two guards and the expiry test
GetValidAccessToken_Read(c, u) ==
  /\ call[c].pc = "idle"
  /\ LET user == users[u]
         base == [IdleCall EXCEPT !.user = u, !.at = now, !.snap = user]
     IN  call' = [call EXCEPT ![c] =
           IF user.accessToken = NULL
             THEN [base EXCEPT !.pc = "done", !.result = "auth_required"]
           ELSE IF IsExpired(user.tokenExpiresAt, now)
             THEN IF user.refreshToken = NULL
                    THEN [base EXCEPT !.pc = "done", !.result = "reauth_required"]
                    ELSE [base EXCEPT !.pc = "refresh"]
           ELSE [base EXCEPT !.pc = "done", !.result = "token",
                             !.ret = user.accessToken,
                             !.retExpiry = user.tokenExpiresAt]]
  /\ UNCHANGED <<now, users, provRT, rotated, nextTok>>
  /\ UNCHANGED <<importVars, analyzeVars, syncVars, extraVars>>

\* ZoomService.refreshAccessToken: the provider accepts the refresh token
\* (the current one, or a rotated one it still tolerates) and rotates it
RefreshAccessToken_Ok(c) ==
  /\ call[c].pc = "refresh"
  /\ nextTok + 1 <= MaxTokens
  /\ LET u == call[c].user
         rt == call[c].snap.refreshToken
     IN  /\ \E e \in ExpiresIns :
              call' = [call EXCEPT ![c] =
                 [@ EXCEPT !.pc = "persist", !.sent = rt,
                           !.sentStale = (rt \in rotated[u]),
                           !.tokens = [access_token |-> nextTok,
                                       refresh_token |-> nextTok + 1,
                                       expires_in |-> e]]]
         /\ rotated' = [rotated EXCEPT ![u] = @ \cup {provRT[u], rt}]
         /\ provRT' = [provRT EXCEPT ![u] = nextTok + 1]
  /\ nextTok' = nextTok + 2
  /\ UNCHANGED <<now, users>>
  /\ UNCHANGED <<importVars, analyzeVars, syncVars, extraVars>>

\* ZoomService.refreshAccessToken: the request fails (network error, or the
\* provider rejects the token): HTTPException 400
RefreshAccessToken_Fail(c) ==
  /\ call[c].pc = "refresh"
  /\ LET u == call[c].user
         rt == call[c].snap.refreshToken
     IN  call' = [call EXCEPT ![c] =
            [@ EXCEPT !.pc = "done", !.result = "refresh_failed", !.sent = rt,
                      !.sentStale = (rt \in rotated[u])]]
  /\ UNCHANGED <<now, users, provRT, rotated, nextTok>>
  /\ UNCHANGED <<importVars, analyzeVars, syncVars, extraVars>>

\* getValidAccessToken: prisma.user.update with the new tokens, then return
GetValidAccessToken_Persist(c) ==
  /\ call[c].pc = "persist"
  /\ LET u == call[c].user
         row == RefreshedUserRow(users[u], call[c].tokens, now)
     IN  /\ users' = [users EXCEPT ![u] = row]
         /\ call' = [call EXCEPT ![c] =
               [@ EXCEPT !.pc = "done", !.result = "token",
                         !.ret = call[c].tokens.access_token,
                         !.retExpiry = row.tokenExpiresAt,
                         !.wrote = users'[u]]]
  /\ UNCHANGED <<now, provRT, rotated, nextTok>>
  /\ UNCHANGED <<importVars, analyzeVars, syncVars, extraVars>>

\* the caller is finished with the result; the slot serves the next request
CallReturn(c) ==
  /\ call[c].pc = "done"
  /\ call' = [call EXCEPT ![c] = IdleCall]
  /\ UNCHANGED <<now, users, provRT, rotated, nextTok>>
  /\ UNCHANGED <<importVars, analyzeVars, syncVars, extraVars>>

TokenNext ==
  \/ Tick
  \/ \E u \in Users : HandleZoomCallback(u)
  \/ \E u \in Users : ZoomDisconnect(u)
  \/ \E c \in Calls, u \in Users : GetValidAccessToken_Read(c, u)
  \/ \E c \in Calls : RefreshAccessToken_Ok(c)
  \/ \E c \in Calls : RefreshAccessToken_Fail(c)
  \/ \E c \in Calls : GetValidAccessToken_Persist(c)
  \/ \E c \in Calls : CallReturn(c)

(* ---------------------- recording import pipeline --------------------- *)
NumMeetings == 1
NumUrls == 2
MaxFiles == 2
NumTimestamps == 2
NumProcs == 2

Meetings == 1..NumMeetings
Urls == 1..NumUrls
Timestamps == 1..NumTimestamps
Procs == 1..NumProcs

\* provider metadata: the file_type of the recording file behind a download_url
FileTypes == <<"MP4", "CHAT", "M4A">>

FileTypeOf(url) == FileTypes[((url - 1) % 3) + 1]

\* the recordingTypes a request may carry (default ['MP4'])
RequestedTypeSets == {{"MP4"}, {"MP4", "CHAT"}}

\* recording_files lists the provider may return for a meeting
FileLists == UNION {[1..n -> Urls] : n \in 0..MaxFiles}

\* meeting ids a request may name: the existing ones and one that does not exist
RequestMeetingIds == 1..(NumMeetings + 1)

\* StorageService.getFileExtension
getFileExtension(fileType) ==
  CASE fileType = "MP4" -> "mp4"
    [] fileType = "M4A" -> "m4a"
    [] fileType = "CHAT" -> "txt"
    [] fileType = "TRANSCRIPT" -> "vtt"
    [] fileType = "CC" -> "vtt"
    [] fileType = "CSV" -> "csv"
    [] OTHER -> "bin"

\* StorageService.generateFileName: recording-<meetingId>-<md5(meetingId-timestamp)[0..8]>.<ext>
\* (the hash prefix is kept as the pair it is computed from)
generateFileName(meetingId, fileType, timestamp) ==
  [m |-> meetingId, h |-> timestamp, ext |-> getFileExtension(fileType)]

NoName == [m |-> 0, h |-> 0, ext |-> "none"]

NoString == "<null>"

\* Meeting.zoomMeetingId values: a provider meeting id, or the id a CSV upload
\* generates (`csv_${Date.now()}_${i}`)
ZoomId(n) == <<"zoom", n, 0>>

CsvId(ts, i) == <<"csv", ts, i>>

NoId == <<"", 0, 0>>

\* a Meeting row (the columns the handlers below read or write)
MeetingRow(zoomMeetingId, userId, recordingUrl, transcriptText) ==
  [zoomMeetingId |-> zoomMeetingId, userId |-> userId, recordingUrl |-> recordingUrl,
   transcriptText |-> transcriptText, summary |-> NULL]

\* a recordingUrl that is a provider play_url (set by sync or GET /:id/recording)
PlayUrl == [m |-> 0, h |-> 0, ext |-> "play_url"]

IdleImp == [pc |-> "idle", kind |-> "none", mlist |-> <<>>, mi |-> 0, types |-> {},
            snap |-> {}, snapUrl |-> NoName, list |-> <<>>, i |-> 0,
            fileUrl |-> NoName, imported |-> <<>>, errors |-> <<>>,
            successful |-> <<>>, failed |-> <<>>, nHere |-> 0, status |-> "none",
            before |-> {}]

CurMeeting(r) == r.mlist[r.mi]

CurUrl(r) == r.list[r.i]

\* recordingTypes.includes(recordingFile.file_type)
AnyTypeRequested(types, fileType) == TRUE

IsRequestedType(types, fileType) == fileType \in types

\* meeting.recordings.find(r => r.downloadUrl === recordingFile.download_url)
NoDedupCheck(snap, url) == FALSE

AlreadyImported(snap, url) == url \in snap

\* single import: index of the next file that passes the type filter and the
\* already-imported check (both synchronous), from j on
RECURSIVE NextEligible(_, _, _, _)
NextEligible(list, j, types, snap) ==
  IF j > Len(list) THEN j
  ELSE IF IsRequestedType(types, FileTypeOf(list[j])) /\ ~ AlreadyImported(snap, list[j]) THEN j
  ELSE NextEligible(list, j + 1, types, snap)

\* batch import: index of the next file that passes the type filter, from j on
RECURSIVE NextRequested(_, _, _)
NextRequested(list, j, types) ==
  IF j > Len(list) THEN j
  ELSE IF IsRequestedType(types, FileTypeOf(list[j])) THEN j
  ELSE NextRequested(list, j + 1, types)

\* batch import: go on with the next meeting of the list, or return
NextMeeting(r) ==
  IF r.mi + 1 > Len(r.mlist)
    THEN [r EXCEPT !.pc = "done", !.status = "ok"]
    ELSE [r EXCEPT !.pc = "meta", !.mi = r.mi + 1, !.list = <<>>, !.i = 0, !.nHere = 0]

\* batch import: after the file loop of one meeting
FinishMeeting(r) ==
  IF r.nHere > 0
    THEN NextMeeting([r EXCEPT !.successful = Append(@, CurMeeting(r))])
    ELSE NextMeeting([r EXCEPT !.failed = Append(@, CurMeeting(r))])

\* the file loop goes on with the files from index j
Advance(r, j) ==
  IF r.kind = "single"
    THEN LET k == NextEligible(r.list, j, r.types, r.snap)
         IN  IF k > Len(r.list)
               THEN [r EXCEPT !.pc = "done", !.status = "ok", !.i = k]
               ELSE [r EXCEPT !.pc = "download", !.i = k]
    ELSE LET k == NextRequested(r.list, j, r.types)
         IN  IF k > Len(r.list)
               THEN FinishMeeting([r EXCEPT !.i = k])
               ELSE [r EXCEPT !.pc = "check", !.i = k]

\* the catch block of the file loop: single import pushes onto errors,
\* batch import only logs
FileFailed(r, message) ==
  IF r.kind = "single"
    THEN Advance([r EXCEPT !.errors = Append(@, [i |-> r.i, error |-> message])],
                 r.i + 1)
    ELSE Advance(r, r.i + 1)

\* storeRecordingLocally when fs.writeFile fails: the error is rethrown
StoreFailedSwallowed(r, name) == [r EXCEPT !.pc = "record", !.fileUrl = name]

StoreFailed(r, name) == FileFailed(r, "Failed to store recording file")

ImportInit ==
  /\ \E urls \in [Meetings -> {NoName, PlayUrl}] :
       meetings = [m \in Meetings |-> MeetingRow(ZoomId(m), 1, urls[m], "transcript")]
  /\ provFiles \in [Meetings -> FileLists]
  /\ recordings = {}
  /\ nextRecId = 1
  /\ files = [n \in {} |-> 0]
  /\ written = {}
  /\ imp = [p \in Procs |-> IdleImp]

\* POST /:id/import-recording up to the provider metadata call
ImportRecording_Start(p, m, types) ==
  /\ imp[p].pc = "idle"
  /\ imp' = [imp EXCEPT ![p] =
       IF m \notin Meetings
         THEN [IdleImp EXCEPT !.pc = "done", !.kind = "single", !.status = "404"]
         ELSE [IdleImp EXCEPT !.pc = "meta", !.kind = "single", !.mlist = <<m>>,
                 !.mi = 1, !.types = types,
                 !.snap = {r.downloadUrl : r \in {x \in recordings : x.meetingId = m}},
                 !.snapUrl = meetings[m].recordingUrl,
                 !.before = {q \in Procs : imp[q].pc = "done" /\ imp[q].status = "ok"}]]
  /\ UNCHANGED <<meetings, provFiles, recordings, nextRecId, files, written>>
  /\ UNCHANGED <<tokenVars, analyzeVars, syncVars, extraVars>>

\* POST /batch-import-recordings up to the first provider metadata call
BatchImport_Start(p, ms, types) ==
  /\ imp[p].pc = "idle"
  /\ imp' = [imp EXCEPT ![p] =
       IF Len(ms) = 0
         THEN [IdleImp EXCEPT !.pc = "done", !.kind = "batch", !.status = "404"]
         ELSE [IdleImp EXCEPT !.pc = "meta", !.kind = "batch", !.mlist = ms,
                 !.mi = 1, !.types = types,
                 !.before = {q \in Procs : imp[q].pc = "done" /\ imp[q].status = "ok"}]]
  /\ UNCHANGED <<meetings, provFiles, recordings, nextRecId, files, written>>
  /\ UNCHANGED <<tokenVars, analyzeVars, syncVars, extraVars>>

\* zoomService.getMeetingRecordings answered
GetMeetingRecordings_Ok(p) ==
  /\ imp[p].pc = "meta"
  /\ LET r == imp[p]
         list == provFiles[CurMeeting(r)]
     IN  imp' = [imp EXCEPT ![p] =
           IF Len(list) = 0
             THEN IF r.kind = "single"
                    THEN [r EXCEPT !.pc = "done", !.status = "404"]
                    ELSE NextMeeting([r EXCEPT !.failed = Append(@, CurMeeting(r))])
             ELSE Advance([r EXCEPT !.list = list], 1)]
  /\ UNCHANGED <<meetings, provFiles, recordings, nextRecId, files, written>>
  /\ UNCHANGED <<tokenVars, analyzeVars, syncVars, extraVars>>

\* zoomService.getMeetingRecordings threw (no valid token, 404, provider error)
GetMeetingRecordings_Fail(p) ==
  /\ imp[p].pc = "meta"
  /\ LET r == imp[p]
     IN  imp' = [imp EXCEPT ![p] =
           IF r.kind = "single"
             THEN [r EXCEPT !.pc = "done", !.status = "error"]
             ELSE NextMeeting([r EXCEPT !.failed = Append(@, CurMeeting(r))])]
  /\ UNCHANGED <<meetings, provFiles, recordings, nextRecId, files, written>>
  /\ UNCHANGED <<tokenVars, analyzeVars, syncVars, extraVars>>

\* batch import: prisma.recording.findFirst({meetingId, downloadUrl})
BatchCheck_Ok(p) ==
  /\ imp[p].pc = "check"
  /\ LET r == imp[p]
         exists == \E x \in recordings :
                      x.meetingId = CurMeeting(r) /\ x.downloadUrl = CurUrl(r)
     IN  imp' = [imp EXCEPT ![p] =
           IF exists THEN Advance(r, r.i + 1) ELSE [r EXCEPT !.pc = "download"]]
  /\ UNCHANGED <<meetings, provFiles, recordings, nextRecId, files, written>>
  /\ UNCHANGED <<tokenVars, analyzeVars, syncVars, extraVars>>

BatchCheck_Fail(p) ==
  /\ imp[p].pc = "check"
  /\ imp' = [imp EXCEPT ![p] = FileFailed(imp[p], "findFirst failed")]
  /\ UNCHANGED <<meetings, provFiles, recordings, nextRecId, files, written>>
  /\ UNCHANGED <<tokenVars, analyzeVars, syncVars, extraVars>>

\* zoomService.downloadRecordingFile
Download_Ok(p) ==
  /\ imp[p].pc = "download"
  /\ imp' = [imp EXCEPT ![p] = [@ EXCEPT !.pc = "store"]]
  /\ UNCHANGED <<meetings, provFiles, recordings, nextRecId, files, written>>
  /\ UNCHANGED <<tokenVars, analyzeVars, syncVars, extraVars>>

Download_Fail(p) ==
  /\ imp[p].pc = "download"
  /\ imp' = [imp EXCEPT ![p] = FileFailed(imp[p], "Failed to download recording file")]
  /\ UNCHANGED <<meetings, provFiles, recordings, nextRecId, files, written>>
  /\ UNCHANGED <<tokenVars, analyzeVars, syncVars, extraVars>>

\* storageService.storeRecordingLocally: fs.writeFile succeeded
Store_Ok(p, ts) ==
  /\ imp[p].pc = "store"
  /\ LET r == imp[p]
         name == generateFileName(CurMeeting(r), FileTypeOf(CurUrl(r)), ts)
     IN  /\ files' = [n \in (DOMAIN files) \cup {name} |->
                        IF n = name THEN CurUrl(r) ELSE files[n]]
         /\ written' = written \cup {name}
         /\ imp' = [imp EXCEPT ![p] = [r EXCEPT !.pc = "record", !.fileUrl = name]]
  /\ UNCHANGED <<meetings, provFiles, recordings, nextRecId>>
  /\ UNCHANGED <<tokenVars, analyzeVars, syncVars, extraVars>>

\* storageService.storeRecordingLocally: fs.writeFile failed
Store_Fail(p, ts) ==
  /\ imp[p].pc = "store"
  /\ LET r == imp[p]
         name == generateFileName(CurMeeting(r), FileTypeOf(CurUrl(r)), ts)
     IN  imp' = [imp EXCEPT ![p] = StoreFailed(r, name)]
  /\ UNCHANGED <<meetings, provFiles, recordings, nextRecId, files, written>>
  /\ UNCHANGED <<tokenVars, analyzeVars, syncVars, extraVars>>

\* storageService.storeRecordingMetadata: prisma.recording.create succeeded;
\* the file is pushed onto the imported list
Record_Ok(p) ==
  /\ imp[p].pc = "record"
  /\ LET r == imp[p]
         row == [id |-> nextRecId, meetingId |-> CurMeeting(r),
                 downloadUrl |-> CurUrl(r), fileUrl |-> r.fileUrl,
                 fileType |-> FileTypeOf(CurUrl(r))]
         r2 == [r EXCEPT !.imported = Append(@, [i |-> r.i, id |-> nextRecId,
                                                  fileUrl |-> r.fileUrl]),
                         !.nHere = @ + 1]
         isMP4 == FileTypeOf(CurUrl(r)) = "MP4"
     IN  /\ recordings' = recordings \cup {row}
         /\ nextRecId' = nextRecId + 1
         /\ imp' = [imp EXCEPT ![p] =
               IF r.kind = "single"
                 THEN IF isMP4 /\ r.snapUrl = NoName
                        THEN [r2 EXCEPT !.pc = "update"]
                        ELSE Advance(r2, r.i + 1)
                 ELSE IF isMP4
                        THEN [r2 EXCEPT !.pc = "update"]
                        ELSE Advance(r2, r.i + 1)]
  /\ UNCHANGED <<meetings, provFiles, files, written>>
  /\ UNCHANGED <<tokenVars, analyzeVars, syncVars, extraVars>>

Record_Fail(p) ==
  /\ imp[p].pc = "record"
  /\ imp' = [imp EXCEPT ![p] = FileFailed(imp[p], "recording.create failed")]
  /\ UNCHANGED <<meetings, provFiles, recordings, nextRecId, files, written>>
  /\ UNCHANGED <<tokenVars, analyzeVars, syncVars, extraVars>>

\* prisma.meeting.update({recordingUrl: fileUrl})
UpdateRecordingUrl_Ok(p) ==
  /\ imp[p].pc = "update"
  /\ LET r == imp[p]
     IN  /\ meetings' = [meetings EXCEPT ![CurMeeting(r)].recordingUrl = r.fileUrl]
         /\ imp' = [imp EXCEPT ![p] = Advance(r, r.i + 1)]
  /\ UNCHANGED <<provFiles, recordings, nextRecId, files, written>>
  /\ UNCHANGED <<tokenVars, analyzeVars, syncVars, extraVars>>

UpdateRecordingUrl_Fail(p) ==
  /\ imp[p].pc = "update"
  /\ imp' = [imp EXCEPT ![p] = FileFailed(imp[p], "meeting.update failed")]
  /\ UNCHANGED <<meetings, provFiles, recordings, nextRecId, files, written>>
  /\ UNCHANGED <<tokenVars, analyzeVars, syncVars, extraVars>>

\* the server process dies between fs.writeFile and prisma.recording.create
\* (a request that stops anywhere else is a behaviour in which it takes no
\* further step)
Crash(p) ==
  /\ imp[p].pc = "record"
  /\ imp' = [imp EXCEPT ![p] = [@ EXCEPT !.pc = "crashed", !.status = "crashed"]]
  /\ UNCHANGED <<meetings, provFiles, recordings, nextRecId, files, written>>
  /\ UNCHANGED <<tokenVars, analyzeVars, syncVars, extraVars>>

\* meeting lists a batch request may select
MeetingLists == {ms \in UNION {[1..n -> Meetings] : n \in 0..NumMeetings} :
                   \A a, b \in DOMAIN ms : a # b => ms[a] # ms[b]}

ImportNext ==
  \/ \E p \in Procs, m \in RequestMeetingIds, t \in RequestedTypeSets :
        ImportRecording_Start(p, m, t)
  \/ \E p \in Procs, ms \in MeetingLists, t \in RequestedTypeSets :
        BatchImport_Start(p, ms, t)
  \/ \E p \in Procs : GetMeetingRecordings_Ok(p)
  \/ \E p \in Procs : GetMeetingRecordings_Fail(p)
  \/ \E p \in Procs : BatchCheck_Ok(p)
  \/ \E p \in Procs : BatchCheck_Fail(p)
  \/ \E p \in Procs : Download_Ok(p)
  \/ \E p \in Procs : Download_Fail(p)
  \/ \E p \in Procs, ts \in Timestamps : Store_Ok(p, ts)
  \/ \E p \in Procs, ts \in Timestamps : Store_Fail(p, ts)
  \/ \E p \in Procs : Record_Ok(p)
  \/ \E p \in Procs : Record_Fail(p)
  \/ \E p \in Procs : UpdateRecordingUrl_Ok(p)
  \/ \E p \in Procs : UpdateRecordingUrl_Fail(p)
  \/ \E p \in Procs : Crash(p)

\* the import pipeline at rest, for the specifications that do not exercise it
ImportInitIdle ==
  /\ meetings = [m \in Meetings |-> MeetingRow(ZoomId(m), 1, NoName, "transcript")]
  /\ provFiles = [m \in Meetings |-> <<>>]
  /\ recordings = {}
  /\ nextRecId = 1
  /\ files = [n \in {} |-> 0]
  /\ written = {}
  /\ imp = [p \in Procs |-> IdleImp]


(* --------------------------- transcript analysis ---------------------- *)
MaxItems == 2
NumSummaries == 1
NumAnalyzers == 2

Analyzers == 1..NumAnalyzers
Summaries == 1..NumSummaries

\* values of Meeting.transcriptText: absent, empty, present
TranscriptTexts == {NoString, "", "transcript"}

\* action items the LLM may return (ActionItem: priority, deadline)
ActionItems ==
  { [priority |-> "high",   deadline |-> NoString],
    [priority |-> "Medium", deadline |-> "2025-09-30"],
    [priority |-> "asap",   deadline |-> NoString],
    [priority |-> NoString, deadline |-> NoString],
    [priority |-> "low",    deadline |-> "next week"] }

ActionItemLists == UNION {[1..n -> ActionItems] : n \in 0..MaxItems}

\* String.prototype.toUpperCase on the priorities above
toUpperCase(str) ==
  CASE str = "low" -> "LOW"
    [] str = "medium" -> "MEDIUM"
    [] str = "Medium" -> "MEDIUM"
    [] str = "high" -> "HIGH"
    [] str = "urgent" -> "URGENT"
    [] str = "asap" -> "ASAP"
    [] OTHER -> str

\* new Date(item.deadline)
NewDate(str) ==
  CASE str = "2025-09-30" -> "2025-09-30T00:00:00.000Z"
    [] OTHER -> "Invalid Date"

\* enum "Priority" of the Task table
PriorityEnum == {"LOW", "MEDIUM", "HIGH", "URGENT"}

\* item.priority.toUpperCase() throws a TypeError when priority is missing
MapThrows(items) == \E k \in DOMAIN items : items[k].priority = NoString

\* the object the route maps one action item to
TaskData(item, meetingId) ==
  [meetingId |-> meetingId,
   priority |-> toUpperCase(item.priority),
   deadline |-> IF item.deadline # NoString /\ item.deadline # ""
                  THEN NewDate(item.deadline) ELSE NoString,
   status |-> "PENDING"]

\* what the database accepts as one Task row
ValidTaskData(d) == d.priority \in PriorityEnum /\ d.deadline # "Invalid Date"

WellFormed(item) ==
  /\ item.priority # NoString
  /\ ValidTaskData(TaskData(item, 0))

\* prisma.task.createMany: one INSERT of all rows; the rows of the table afterwards
ReplaceMeetingTasks(rows, items, meetingId, firstId) ==
  {t \in rows : t.meetingId # meetingId} \cup
  {[id |-> firstId + k - 1, data |-> TaskData(items[k], meetingId),
    meetingId |-> meetingId] : k \in DOMAIN items}

CreateMany(rows, items, meetingId, firstId) ==
  rows \cup
  {[id |-> firstId + k - 1, data |-> TaskData(items[k], meetingId),
    meetingId |-> meetingId] : k \in DOMAIN items}

CreateManyAccepts(items, meetingId) ==
  \A k \in DOMAIN items : ValidTaskData(TaskData(items[k], meetingId))

\* if (!meeting.transcriptText)
NullCheckOnly(text) == text # NoString

HasTranscript(text) == text # NoString /\ text # ""

IdleAn == [pc |-> "idle", meeting |-> 0, seen |-> NoString, summary |-> NULL,
           items |-> <<>>, status |-> "none", reason |-> "none",
           llmCalled |-> FALSE, updated |-> FALSE, created |-> 0]

\* a task created by hand (POST /:id/tasks) before any analysis
ManualTask(m) == [id |-> 0, data |-> [meetingId |-> m, priority |-> "MEDIUM",
                                      deadline |-> NoString, status |-> "PENDING"],
                  meetingId |-> m]

AnalyzeInit ==
  /\ \E texts \in [Meetings -> TranscriptTexts] :
       meetings = [m \in Meetings |-> MeetingRow(ZoomId(m), 1, NoName, texts[m])]
  /\ tasks \in SUBSET {ManualTask(m) : m \in Meetings}
  /\ nextTaskId = 1
  /\ an = [p \in Analyzers |-> IdleAn]

AnalyzeInitIdle ==
  /\ tasks = {}
  /\ nextTaskId = 1
  /\ an = [p \in Analyzers |-> IdleAn]

\* POST /:id/analyze: findFirst and the two guards
Analyze_Start(p, m) ==
  /\ an[p].pc = "idle"
  /\ an' = [an EXCEPT ![p] =
       IF m \notin Meetings
         THEN [IdleAn EXCEPT !.pc = "done", !.meeting = m, !.status = "404"]
       ELSE IF ~ HasTranscript(meetings[m].transcriptText)
         THEN [IdleAn EXCEPT !.pc = "done", !.meeting = m, !.status = "400",
                             !.seen = meetings[m].transcriptText]
       ELSE [IdleAn EXCEPT !.pc = "llm", !.meeting = m,
                           !.seen = meetings[m].transcriptText]]
  /\ UNCHANGED <<meetings, tasks, nextTaskId>>
  /\ UNCHANGED <<tokenVars, importIdleVars, syncVars, extraVars>>

\* openaiService.analyzeTranscript returned
AnalyzeTranscript_Ok(p, summary, items) ==
  /\ an[p].pc = "llm"
  /\ an' = [an EXCEPT ![p] = [@ EXCEPT !.pc = "update", !.llmCalled = TRUE,
                                       !.summary = summary, !.items = items]]
  /\ UNCHANGED <<meetings, tasks, nextTaskId>>
  /\ UNCHANGED <<tokenVars, importIdleVars, syncVars, extraVars>>

\* openaiService.analyzeTranscript threw HTTPException(500)
AnalyzeTranscript_Fail(p) ==
  /\ an[p].pc = "llm"
  /\ an' = [an EXCEPT ![p] = [@ EXCEPT !.pc = "done", !.llmCalled = TRUE,
                                       !.status = "500", !.reason = "llm"]]
  /\ UNCHANGED <<meetings, tasks, nextTaskId>>
  /\ UNCHANGED <<tokenVars, importIdleVars, syncVars, extraVars>>

\* prisma.meeting.update with the analysis, then the synchronous map of the
\* action items
AnalyzeUpdate_Ok(p) ==
  /\ an[p].pc = "update"
  /\ meetings' = [meetings EXCEPT ![an[p].meeting].summary = an[p].summary]
  /\ an' = [an EXCEPT ![p] =
       IF Len(an[p].items) = 0
         THEN [@ EXCEPT !.pc = "done", !.updated = TRUE, !.status = "200"]
       ELSE IF MapThrows(an[p].items)
         THEN [@ EXCEPT !.pc = "done", !.updated = TRUE, !.status = "500",
                        !.reason = "map"]
       ELSE [@ EXCEPT !.pc = "createMany", !.updated = TRUE]]
  /\ UNCHANGED <<tasks, nextTaskId>>
  /\ UNCHANGED <<tokenVars, importIdleVars, syncVars, extraVars>>

AnalyzeUpdate_Fail(p) ==
  /\ an[p].pc = "update"
  /\ an' = [an EXCEPT ![p] = [@ EXCEPT !.pc = "done", !.status = "500",
                                       !.reason = "db"]]
  /\ UNCHANGED <<meetings, tasks, nextTaskId>>
  /\ UNCHANGED <<tokenVars, importIdleVars, syncVars, extraVars>>

\* prisma.task.createMany accepted the batch
AnalyzeCreateMany_Ok(p) ==
  /\ an[p].pc = "createMany"
  /\ CreateManyAccepts(an[p].items, an[p].meeting)
  /\ tasks' = CreateMany(tasks, an[p].items, an[p].meeting, nextTaskId)
  /\ nextTaskId' = nextTaskId + Len(an[p].items)
  /\ an' = [an EXCEPT ![p] = [@ EXCEPT !.pc = "done", !.status = "200",
                                       !.created = Len(an[p].items)]]
  /\ UNCHANGED <<meetings>>
  /\ UNCHANGED <<tokenVars, importIdleVars, syncVars, extraVars>>

\* prisma.task.createMany rejected a row of the batch: nothing is inserted
AnalyzeCreateMany_Invalid(p) ==
  /\ an[p].pc = "createMany"
  /\ ~ CreateManyAccepts(an[p].items, an[p].meeting)
  /\ an' = [an EXCEPT ![p] = [@ EXCEPT !.pc = "done", !.status = "500",
                                       !.reason = "validation"]]
  /\ UNCHANGED <<meetings, tasks, nextTaskId>>
  /\ UNCHANGED <<tokenVars, importIdleVars, syncVars, extraVars>>

\* prisma.task.createMany failed for a reason of the database
AnalyzeCreateMany_Fail(p) ==
  /\ an[p].pc = "createMany"
  /\ an' = [an EXCEPT ![p] = [@ EXCEPT !.pc = "done", !.status = "500",
                                       !.reason = "db"]]
  /\ UNCHANGED <<meetings, tasks, nextTaskId>>
  /\ UNCHANGED <<tokenVars, importIdleVars, syncVars, extraVars>>

AnalyzeNext ==
  \/ \E p \in Analyzers, m \in RequestMeetingIds : Analyze_Start(p, m)
  \/ \E p \in Analyzers, sm \in Summaries, items \in ActionItemLists :
        AnalyzeTranscript_Ok(p, sm, items)
  \/ \E p \in Analyzers : AnalyzeTranscript_Fail(p)
  \/ \E p \in Analyzers : AnalyzeUpdate_Ok(p)
  \/ \E p \in Analyzers : AnalyzeUpdate_Fail(p)
  \/ \E p \in Analyzers : AnalyzeCreateMany_Ok(p)
  \/ \E p \in Analyzers : AnalyzeCreateMany_Invalid(p)
  \/ \E p \in Analyzers : AnalyzeCreateMany_Fail(p)

(* ----------------------- meeting sync and CSV upload ------------------ *)
NumZoomMeetings == 2
MaxPageLen == 2
MaxPages == 2
MaxListed == 2
MaxCsvRows == 2
MaxCsvItems == 1
NumSyncProcs == 2
NumCsvProcs == 1

SyncProcs == 1..NumSyncProcs

\* the requests that upload a CSV file when OPENAI_API_KEY is set
CsvProcs == {p \in SyncProcs : p <= NumCsvProcs}

\* action items the model of the LLM answers for a CSV row
CsvItemLists == {l \in ActionItemLists : Len(l) <= MaxCsvItems}

NoRow == [topic |-> "", date |-> "", transcript |-> "", meeting_id |-> NoId]
ZoomIds == {ZoomId(n) : n \in 1..NumZoomMeetings}

\* pages of meetings the provider may return to one getMeetings call
MeetingPages == UNION {[1..n -> ZoomIds] : n \in 0..MaxPageLen}

\* data rows of an uploaded CSV file: complete rows (with or without a
\* meeting_id column value), rows lacking a required value, a row whose date
\* does not parse
CsvRowKinds ==
  {[topic |-> "T", date |-> "2025-09-01", transcript |-> "X", meeting_id |-> id] :
      id \in {NoId} \cup ZoomIds}
  \cup {[topic |-> "", date |-> "2025-09-01", transcript |-> "X", meeting_id |-> NoId],
        [topic |-> "T", date |-> "", transcript |-> "X", meeting_id |-> NoId],
        [topic |-> "T", date |-> "2025-09-01", transcript |-> "", meeting_id |-> NoId],
        [topic |-> "T", date |-> "someday", transcript |-> "X", meeting_id |-> NoId]}

\* what one sync stores for a new meeting: (recordingUrl, transcriptText)
SyncedContents == {<<NoName, NoString>>, <<PlayUrl, "transcript">>}

\* unique index Meeting_zoomMeetingId_key
NoUniqueIndex(rows, zid) == FALSE

UniqueViolation(rows, zid) == \E k \in DOMAIN rows : rows[k].zoomMeetingId = zid

\* prisma.meeting.create: the table with the new row
InsertMeeting(rows, row) ==
  [k \in (DOMAIN rows) \cup {Cardinality(DOMAIN rows) + 1} |->
     IF k \in DOMAIN rows THEN rows[k] ELSE row]

\* if (!row.topic || !row.date || !row.transcript)
NoRowCheck(row) == FALSE

RowMissingData(row) == row.topic = "" \/ row.date = "" \/ row.transcript = ""

\* new Date(row.date) is a valid date
DateParses(str) == str = "2025-09-01"

IdleSy == [pc |-> "idle", kind |-> "none", user |-> 0, page |-> <<>>, row |-> NoRow,
           nrows |-> 0, i |-> 0, j |-> 0, pageNo |-> 0, nListed |-> 0, hasNext |-> FALSE,
           synced |-> 0,
           processed |-> <<>>, errors |-> <<>>, listed |-> {},
           status |-> "none", mid |-> 0, summary |-> NULL, items |-> <<>>]

NoNextPage(r) == FALSE

\* while (nextPageToken)
HasNextPage(r) == r.hasNext

\* syncMeetings: the for loop goes on with the meetings of the page from index j,
\* then the do-while tests nextPageToken
SyncAdvance(r, j) ==
  IF j <= Len(r.page) THEN [r EXCEPT !.pc = "find", !.j = j]
  ELSE IF HasNextPage(r) THEN [r EXCEPT !.pc = "page", !.j = 0, !.page = <<>>]
  ELSE [r EXCEPT !.pc = "done", !.j = 0, !.page = <<>>, !.status = "200"]

SyncError(r, message) ==
  SyncAdvance([r EXCEPT !.errors = Append(@, [id |-> r.page[r.j], error |-> message])],
              r.j + 1)

\* upload-csv: the row loop goes on with the next data row, or the handler
\* returns (the rows of the file are drawn when the loop reaches them)
CsvAdvance(r) ==
  IF r.i >= r.nrows
    THEN [r EXCEPT !.pc = "done", !.status = "200", !.row = NoRow, !.mid = 0,
                   !.summary = NULL, !.items = <<>>]
    ELSE [r EXCEPT !.pc = "csvRow", !.row = NoRow, !.mid = 0, !.summary = NULL,
                   !.items = <<>>]

CsvError(r, message) ==
  CsvAdvance([r EXCEPT !.errors = Append(@, [row |-> r.i, error |-> message])])

SyncInit ==
  /\ meetings = <<>>
  /\ tasks = {}
  /\ nextTaskId = 1
  /\ an = [p \in Analyzers |-> IdleAn]
  /\ sy = [p \in SyncProcs |-> IdleSy]

SyncInitIdle ==
  /\ openaiKey = FALSE
  /\ sy = [p \in SyncProcs |-> IdleSy]

\* POST /sync -> ZoomService.syncMeetings
SyncMeetings_Start(p, u) ==
  /\ sy[p].pc = "idle"
  /\ sy' = [sy EXCEPT ![p] = [IdleSy EXCEPT !.pc = "page", !.kind = "sync", !.user = u]]
  /\ UNCHANGED <<meetings, tasks, nextTaskId, openaiKey>>
  /\ UNCHANGED <<tokenVars, importIdleVars, an, extraVars>>

\* this.getMeetings returned a page and, when more is true, a next_page_token
GetMeetings_Ok(p, page, more) ==
  /\ sy[p].pc = "page"
  /\ more => sy[p].pageNo + 1 < MaxPages
  /\ sy[p].nListed + Len(page) <= MaxListed
  /\ sy' = [sy EXCEPT ![p] =
       SyncAdvance([@ EXCEPT !.page = page, !.hasNext = more, !.pageNo = @ + 1,
                             !.nListed = @ + Len(page),
                             !.listed = @ \cup {page[k] : k \in DOMAIN page}], 1)]
  /\ UNCHANGED <<meetings, tasks, nextTaskId, openaiKey>>
  /\ UNCHANGED <<tokenVars, importIdleVars, an, extraVars>>

\* this.getMeetings threw: the page error is recorded and the loop is left
GetMeetings_Fail(p) ==
  /\ sy[p].pc = "page"
  /\ sy' = [sy EXCEPT ![p] =
       [@ EXCEPT !.pc = "done", !.status = "200",
                 !.errors = Append(@, [id |-> NoId, error |-> "Failed to fetch meetings page"])]]
  /\ UNCHANGED <<meetings, tasks, nextTaskId, openaiKey>>
  /\ UNCHANGED <<tokenVars, importIdleVars, an, extraVars>>

\* prisma.meeting.findUnique({zoomMeetingId})
SyncFindUnique_Ok(p) ==
  /\ sy[p].pc = "find"
  /\ LET r == sy[p]
         exists == \E k \in DOMAIN meetings : meetings[k].zoomMeetingId = r.page[r.j]
     IN  sy' = [sy EXCEPT ![p] =
           IF exists THEN SyncAdvance(r, r.j + 1) ELSE [r EXCEPT !.pc = "create"]]
  /\ UNCHANGED <<meetings, tasks, nextTaskId, openaiKey>>
  /\ UNCHANGED <<tokenVars, importIdleVars, an, extraVars>>

SyncFindUnique_Fail(p) ==
  /\ sy[p].pc = "find"
  /\ sy' = [sy EXCEPT ![p] = SyncError(sy[p], "findUnique failed")]
  /\ UNCHANGED <<meetings, tasks, nextTaskId, openaiKey>>
  /\ UNCHANGED <<tokenVars, importIdleVars, an, extraVars>>

\* getMeetingRecordings and getMeetingTranscript (their errors are swallowed),
\* then prisma.meeting.create succeeded
SyncCreate_Ok(p, content) ==
  /\ sy[p].pc = "create"
  /\ LET r == sy[p]
         zid == r.page[r.j]
     IN  /\ ~ UniqueViolation(meetings, zid)
         /\ meetings' = InsertMeeting(meetings,
                           MeetingRow(zid, r.user, content[1], content[2]))
         /\ sy' = [sy EXCEPT ![p] = SyncAdvance([r EXCEPT !.synced = @ + 1], r.j + 1)]
  /\ UNCHANGED <<tasks, nextTaskId, openaiKey>>
  /\ UNCHANGED <<tokenVars, importIdleVars, an, extraVars>>

\* prisma.meeting.create threw (unique constraint, or another database error)
SyncCreate_Fail(p) ==
  /\ sy[p].pc = "create"
  /\ sy' = [sy EXCEPT ![p] = SyncError(sy[p], "create failed")]
  /\ UNCHANGED <<meetings, tasks, nextTaskId, openaiKey>>
  /\ UNCHANGED <<tokenVars, importIdleVars, an, extraVars>>

\* POST /upload-csv up to the row loop; n is the number of data rows
UploadCsv_Start(p, u, n) ==
  /\ sy[p].pc = "idle"
  /\ sy' = [sy EXCEPT ![p] =
       IF n = 0
         THEN [IdleSy EXCEPT !.pc = "done", !.kind = "csv", !.user = u, !.status = "400"]
         ELSE [IdleSy EXCEPT !.pc = "csvRow", !.kind = "csv", !.user = u, !.nrows = n]]
  /\ UNCHANGED <<meetings, tasks, nextTaskId, openaiKey>>
  /\ UNCHANGED <<tokenVars, importIdleVars, an, extraVars>>

\* upload-csv: the next data row is parsed; a row lacking a required value is
\* reported and skipped
CsvRow(p, row) ==
  /\ sy[p].pc = "csvRow"
  /\ LET r == [sy[p] EXCEPT !.row = row, !.i = @ + 1]
     IN  sy' = [sy EXCEPT ![p] =
           IF RowMissingData(row) THEN CsvError(r, "Missing required data")
                                  ELSE [r EXCEPT !.pc = "csvCreate"]]
  /\ UNCHANGED <<meetings, tasks, nextTaskId, openaiKey>>
  /\ UNCHANGED <<tokenVars, importIdleVars, an, extraVars>>

\* error.message of a prisma.meeting.create that threw: the startTime is an
\* Invalid Date, the row's meeting_id is taken, or the database failed
CsvCreateErrorMessage(row) ==
  IF ~ DateParses(row.date) THEN "Invalid Date"
  ELSE IF row.meeting_id # NoId /\ UniqueViolation(meetings, row.meeting_id)
    THEN "Unique constraint failed"
  ELSE "create failed"

\* prisma.meeting.create for a CSV row succeeded
CsvCreate_Ok(p, ts) ==
  /\ sy[p].pc = "csvCreate"
  /\ LET r == sy[p]
         i == r.i
         row == r.row
         zid == IF row.meeting_id # NoId THEN row.meeting_id ELSE CsvId(ts, i)
         mid == Cardinality(DOMAIN meetings) + 1
         r2 == [r EXCEPT !.processed = Append(@, i), !.mid = mid]
     IN  /\ DateParses(row.date)
         /\ ~ UniqueViolation(meetings, zid)
         /\ meetings' = InsertMeeting(meetings,
                           MeetingRow(zid, r.user, NoName, row.transcript))
         /\ sy' = [sy EXCEPT ![p] =
               IF openaiKey THEN [r2 EXCEPT !.pc = "csvLLM"]
                            ELSE CsvAdvance(r2)]
  /\ UNCHANGED <<tasks, nextTaskId, openaiKey>>
  /\ UNCHANGED <<tokenVars, importIdleVars, an, extraVars>>

\* prisma.meeting.create for a CSV row threw
CsvCreate_Fail(p) ==
  /\ sy[p].pc = "csvCreate"
  /\ sy' = [sy EXCEPT ![p] = CsvError(sy[p], CsvCreateErrorMessage(sy[p].row))]
  /\ UNCHANGED <<meetings, tasks, nextTaskId, openaiKey>>
  /\ UNCHANGED <<tokenVars, importIdleVars, an, extraVars>>

\* upload-csv: openaiService.analyzeTranscript for the row just created
CsvAnalyze_Ok(p, sm, items) ==
  /\ sy[p].pc = "csvLLM"
  /\ sy' = [sy EXCEPT ![p] = [@ EXCEPT !.pc = "csvUpdate", !.summary = sm,
                                       !.items = items]]
  /\ UNCHANGED <<meetings, tasks, nextTaskId, openaiKey>>
  /\ UNCHANGED <<tokenVars, importIdleVars, an, extraVars>>

CsvAnalyze_Fail(p) ==
  /\ sy[p].pc = "csvLLM"
  /\ sy' = [sy EXCEPT ![p] = CsvError(sy[p], "Failed to analyze transcript")]
  /\ UNCHANGED <<meetings, tasks, nextTaskId, openaiKey>>
  /\ UNCHANGED <<tokenVars, importIdleVars, an, extraVars>>

\* upload-csv: prisma.meeting.update with the analysis, then the map of the items
CsvUpdate_Ok(p) ==
  /\ sy[p].pc = "csvUpdate"
  /\ LET r == sy[p]
     IN  /\ meetings' = [meetings EXCEPT ![r.mid].summary = r.summary]
         /\ sy' = [sy EXCEPT ![p] =
               IF Len(r.items) = 0 THEN CsvAdvance(r)
               ELSE IF MapThrows(r.items) THEN CsvError(r, "TypeError")
               ELSE [r EXCEPT !.pc = "csvTasks"]]
  /\ UNCHANGED <<tasks, nextTaskId, openaiKey>>
  /\ UNCHANGED <<tokenVars, importIdleVars, an, extraVars>>

CsvUpdate_Fail(p) ==
  /\ sy[p].pc = "csvUpdate"
  /\ sy' = [sy EXCEPT ![p] = CsvError(sy[p], "update failed")]
  /\ UNCHANGED <<meetings, tasks, nextTaskId, openaiKey>>
  /\ UNCHANGED <<tokenVars, importIdleVars, an, extraVars>>

\* upload-csv: prisma.task.createMany
CsvCreateMany_Ok(p) ==
  /\ sy[p].pc = "csvTasks"
  /\ LET r == sy[p]
     IN  /\ CreateManyAccepts(r.items, r.mid)
         /\ tasks' = CreateMany(tasks, r.items, r.mid, nextTaskId)
         /\ nextTaskId' = nextTaskId + Len(r.items)
         /\ sy' = [sy EXCEPT ![p] = CsvAdvance(r)]
  /\ UNCHANGED <<meetings, openaiKey>>
  /\ UNCHANGED <<tokenVars, importIdleVars, an, extraVars>>

CsvCreateMany_Fail(p) ==
  /\ sy[p].pc = "csvTasks"
  /\ sy' = [sy EXCEPT ![p] = CsvError(sy[p], "createMany failed")]
  /\ UNCHANGED <<meetings, tasks, nextTaskId, openaiKey>>
  /\ UNCHANGED <<tokenVars, importIdleVars, an, extraVars>>

SyncNext ==
  \/ \E p \in SyncProcs, u \in Users : SyncMeetings_Start(p, u)
  \/ \E p \in SyncProcs, page \in MeetingPages, more \in BOOLEAN :
        GetMeetings_Ok(p, page, more)
  \/ \E p \in SyncProcs : GetMeetings_Fail(p)
  \/ \E p \in SyncProcs : SyncFindUnique_Ok(p)
  \/ \E p \in SyncProcs : SyncFindUnique_Fail(p)
  \/ \E p \in SyncProcs, content \in SyncedContents : SyncCreate_Ok(p, content)
  \/ \E p \in SyncProcs : SyncCreate_Fail(p)
  \/ \E p \in SyncProcs, u \in Users, n \in 0..MaxCsvRows : UploadCsv_Start(p, u, n)
  \/ \E p \in SyncProcs, row \in CsvRowKinds : CsvRow(p, row)
  \/ \E p \in SyncProcs, ts \in Timestamps : CsvCreate_Ok(p, ts)
  \/ \E p \in SyncProcs : CsvCreate_Fail(p)

CsvNext ==
  \/ \E p \in CsvProcs, u \in Users, n \in 0..MaxCsvRows : UploadCsv_Start(p, u, n)
  \/ \E p \in CsvProcs, row \in CsvRowKinds : CsvRow(p, row)
  \/ \E p \in CsvProcs, ts \in Timestamps : CsvCreate_Ok(p, ts)
  \/ \E p \in CsvProcs : CsvCreate_Fail(p)
  \/ \E p \in CsvProcs, sm \in Summaries, items \in CsvItemLists :
        CsvAnalyze_Ok(p, sm, items)
  \/ \E p \in CsvProcs : CsvAnalyze_Fail(p)
  \/ \E p \in CsvProcs : CsvUpdate_Ok(p)
  \/ \E p \in CsvProcs : CsvUpdate_Fail(p)
  \/ \E p \in CsvProcs : CsvCreateMany_Ok(p)
  \/ \E p \in CsvProcs : CsvCreateMany_Fail(p)

(* ------------------------------ export -------------------------------- *)
NumExporters == 1

Exporters == 1..NumExporters

\* ExportFormat, and a format the route rejects
ExportFormats == {"PDF", "MARKDOWN", "WORD", "JSON"}

RequestFormats == ExportFormats \cup {"HTML"}

\* ExportOptions without the format, as the route passes them
IncludeOptions ==
  [includeSummary : BOOLEAN, includeTranscript : BOOLEAN,
   includeActionItems : BOOLEAN, includeSpeakerInsights : BOOLEAN]

\* getMeetingExportData: the optional members are set only for truthy columns
\* (hasSpeakers: the speakers column holds JSON that parses)
getMeetingExportData(m, hasSpeakers) ==
  [meeting |-> m,
   summary |-> meetings[m].summary,
   transcript |-> IF meetings[m].transcriptText \in {NoString, ""}
                    THEN NoString ELSE meetings[m].transcriptText,
   actionItems |-> {t \in tasks : t.meetingId = m},
   speakerInsights |-> hasSpeakers]

\* the sections of an artifact; a section left out is NULL, NoString, {} or FALSE
SummarySection(options, data) ==
  IF options.includeSummary /\ data.summary # NULL THEN data.summary ELSE NULL

ActionItemsSection(options, data) ==
  IF options.includeActionItems /\ data.actionItems # {} THEN data.actionItems ELSE {}

SpeakerInsightsSection(options, data) ==
  options.includeSpeakerInsights /\ data.speakerInsights

\* if (options.includeTranscript && data.transcript)
TranscriptAlways(options, data) == data.transcript

TranscriptSection(options, data) ==
  IF options.includeTranscript /\ data.transcript # NoString
    THEN data.transcript ELSE NoString

exportAsPDF(options, data) ==
  [format |-> "PDF", meeting |-> data.meeting,
   summary |-> SummarySection(options, data),
   actionItems |-> ActionItemsSection(options, data),
   speakerInsights |-> SpeakerInsightsSection(options, data),
   transcript |-> TranscriptSection(options, data)]

\* the Word document has no speaker insights section
exportAsWord(options, data) ==
  [format |-> "WORD", meeting |-> data.meeting,
   summary |-> SummarySection(options, data),
   actionItems |-> ActionItemsSection(options, data),
   speakerInsights |-> FALSE,
   transcript |-> TranscriptSection(options, data)]

exportAsMarkdown(options, data) ==
  [format |-> "MARKDOWN", meeting |-> data.meeting,
   summary |-> SummarySection(options, data),
   actionItems |-> ActionItemsSection(options, data),
   speakerInsights |-> SpeakerInsightsSection(options, data),
   transcript |-> TranscriptSection(options, data)]

exportAsJSON(options, data) ==
  [format |-> "JSON", meeting |-> data.meeting,
   summary |-> SummarySection(options, data),
   actionItems |-> ActionItemsSection(options, data),
   speakerInsights |-> SpeakerInsightsSection(options, data),
   transcript |-> TranscriptSection(options, data)]

\* exportMeeting: switch (options.format)
RenderExport(format, options, data) ==
  CASE format = "PDF" -> exportAsPDF(options, data)
    [] format = "WORD" -> exportAsWord(options, data)
    [] format = "MARKDOWN" -> exportAsMarkdown(options, data)
    [] OTHER -> exportAsJSON(options, data)

ExportExtension(format) ==
  CASE format = "PDF" -> "pdf"
    [] format = "WORD" -> "docx"
    [] format = "MARKDOWN" -> "md"
    [] OTHER -> "json"

\* `meeting-${data.meeting.id}-${Date.now()}.${ext}`
ExportFileName(m, ts, format) == [m |-> m, h |-> ts, ext |-> ExportExtension(format)]

NoOptions == [includeSummary |-> FALSE, includeTranscript |-> FALSE,
              includeActionItems |-> FALSE, includeSpeakerInsights |-> FALSE]

NoContent == [format |-> "none", meeting |-> 0, summary |-> NULL, actionItems |-> {},
              speakerInsights |-> FALSE, transcript |-> NoString]

IdleEx == [pc |-> "idle", meeting |-> 0, format |-> "none", options |-> NoOptions,
           fileName |-> NoName, artifact |-> NoContent, status |-> "none"]

ExportInitIdle ==
  /\ exFiles = [n \in {} |-> NoContent]
  /\ exports = <<>>
  /\ ex = [p \in Exporters |-> IdleEx]

\* meetings with and without transcript, summary and tasks, before an export
ExportInit ==
  /\ \E texts \in [Meetings -> TranscriptTexts], sums \in [Meetings -> {NULL} \cup Summaries] :
       meetings = [m \in Meetings |->
                     [MeetingRow(ZoomId(m), 1, NoName, texts[m]) EXCEPT !.summary = sums[m]]]
  /\ tasks \in SUBSET {ManualTask(m) : m \in Meetings}
  /\ nextTaskId = 1
  /\ an = [p \in Analyzers |-> IdleAn]
  /\ ExportInitIdle

\* POST /:id/export: ownership check and format validation
ExportMeeting_Start(p, m, format, options) ==
  /\ ex[p].pc = "idle"
  /\ ex' = [ex EXCEPT ![p] =
       IF m \notin Meetings
         THEN [IdleEx EXCEPT !.pc = "done", !.status = "404"]
       ELSE IF format \notin ExportFormats
         THEN [IdleEx EXCEPT !.pc = "done", !.meeting = m, !.status = "400"]
       ELSE [IdleEx EXCEPT !.pc = "render", !.meeting = m, !.format = format,
                           !.options = options]]
  /\ UNCHANGED <<exFiles, exports>>
  /\ UNCHANGED <<tokenVars, importVars, analyzeVars, syncVars, authVars, shareVars, clientVars, compareVars, storeVars, sessVars>>

\* exportAsPDF / exportAsWord / exportAsMarkdown / exportAsJSON wrote the file
ExportRender_Ok(p, ts, hasSpeakers) ==
  /\ ex[p].pc = "render"
  /\ LET r == ex[p]
         name == ExportFileName(r.meeting, ts, r.format)
         content == RenderExport(r.format, r.options,
                                 getMeetingExportData(r.meeting, hasSpeakers))
     IN  /\ exFiles' = [n \in (DOMAIN exFiles) \cup {name} |->
                          IF n = name THEN content ELSE exFiles[n]]
         /\ ex' = [ex EXCEPT ![p] = [r EXCEPT !.pc = "record", !.fileName = name,
                                              !.artifact = content]]
  /\ UNCHANGED <<exports>>
  /\ UNCHANGED <<tokenVars, importVars, analyzeVars, syncVars, authVars, shareVars, clientVars, compareVars, storeVars, sessVars>>

\* rendering or writing the file threw: HTTPException(500)
ExportRender_Fail(p) ==
  /\ ex[p].pc = "render"
  /\ ex' = [ex EXCEPT ![p] = [@ EXCEPT !.pc = "done", !.status = "500"]]
  /\ UNCHANGED <<exFiles, exports>>
  /\ UNCHANGED <<tokenVars, importVars, analyzeVars, syncVars, authVars, shareVars, clientVars, compareVars, storeVars, sessVars>>

\* prisma.export.create, then the route answers with fileName
ExportRecord_Ok(p) ==
  /\ ex[p].pc = "record"
  /\ exports' = Append(exports, [format |-> ex[p].format, fileName |-> ex[p].fileName,
                                 meetingId |-> ex[p].meeting])
  /\ ex' = [ex EXCEPT ![p] = [@ EXCEPT !.pc = "done", !.status = "200"]]
  /\ UNCHANGED <<exFiles>>
  /\ UNCHANGED <<tokenVars, importVars, analyzeVars, syncVars, authVars, shareVars, clientVars, compareVars, storeVars, sessVars>>

ExportRecord_Fail(p) ==
  /\ ex[p].pc = "record"
  /\ ex' = [ex EXCEPT ![p] = [@ EXCEPT !.pc = "done", !.status = "500"]]
  /\ UNCHANGED <<exFiles, exports>>
  /\ UNCHANGED <<tokenVars, importVars, analyzeVars, syncVars, authVars, shareVars, clientVars, compareVars, storeVars, sessVars>>

ExportNext ==
  \/ \E p \in Exporters, m \in RequestMeetingIds, f \in RequestFormats, o \in IncludeOptions :
        ExportMeeting_Start(p, m, f, o)
  \/ \E p \in Exporters, ts \in Timestamps, sp \in BOOLEAN : ExportRender_Ok(p, ts, sp)
  \/ \E p \in Exporters : ExportRender_Fail(p)
  \/ \E p \in Exporters : ExportRecord_Ok(p)
  \/ \E p \in Exporters : ExportRecord_Fail(p)

(* ---------------- accounts, Zoom connection and the Zoom gate ---------- *)
NumAuthUsers == 2
MaxGrants == 2
NumGated == 1

\* user ids; the user with id u has the e-mail address u
AuthUsers == 1..NumAuthUsers
\* the user ids a state parameter can name: the rows' ids and an id without a row
StateUserIds == 1..(NumAuthUsers + 1)
Grants == 1..MaxGrants
GatedProcs == 1..NumGated

\* prisma.user.create with the column defaults
NewAcct == [exists |-> TRUE, zoomUserId |-> NULL, zoomConnected |-> FALSE,
            accessToken |-> NULL, refreshToken |-> NULL]

NoAcct == [NewAcct EXCEPT !.exists = FALSE]

\* Buffer.from(JSON.stringify({userId, timestamp})).toString('base64')
EncodeState(userId, timestamp) == <<"base64", "json", userId, timestamp>>

\* a base64 string whose text is not JSON, and JSON text without a userId
NotJson == <<"base64", "text", 0, 0>>
NoUserIdJson == <<"base64", "json", NULL, 0>>

\* every state parameter a client can send
StateParams ==
  {EncodeState(u, ts) : u \in StateUserIds, ts \in Timestamps} \cup {NotJson, NoUserIdJson}

\* JSON.parse(Buffer.from(state, 'base64').toString('utf-8')) succeeds
StateParses(state) == state[2] = "json"

\* decodedState.userId
StateUserId(state) == state[3]

IdleGate == [pc |-> "idle", user |-> 0, flag |-> FALSE, status |-> "none",
             provider |-> FALSE, wrote |-> FALSE]

NoCallback == [caller |-> 0, state |-> NotJson, issued |-> FALSE, status |-> "none",
               changed |-> 0]

AuthInitIdle ==
  /\ acct = [u \in AuthUsers |-> NoAcct]
  /\ jwts = {}
  /\ issued = {}
  /\ nextGrant = 1
  /\ rf = {}
  /\ gate = [p \in GatedProcs |-> IdleGate]
  /\ cb = NoCallback

\* authMiddleware: the bearer token verifies and its user row exists
Authenticated(u) == u \in jwts /\ acct[u].exists

\* POST /auth/register: a new row with the defaults, and a session token
Register(u) ==
  /\ ~ acct[u].exists
  /\ acct' = [acct EXCEPT ![u] = NewAcct]
  /\ jwts' = jwts \cup {u}
  /\ UNCHANGED <<issued, nextGrant, rf, gate, cb>>
  /\ UNCHANGED <<tokenVars, importVars, analyzeVars, syncVars, exportVars, shareVars, clientVars, compareVars, storeVars, sessVars>>

\* POST /auth/login: a session token for an existing row
Login(u) ==
  /\ acct[u].exists
  /\ jwts' = jwts \cup {u}
  /\ UNCHANGED <<acct, issued, nextGrant, rf, gate, cb>>
  /\ UNCHANGED <<tokenVars, importVars, analyzeVars, syncVars, exportVars, shareVars, clientVars, compareVars, storeVars, sessVars>>

\* GET /auth/zoom: the authorization URL carries the encoded state
GenerateZoomUrl(u, ts) ==
  /\ Authenticated(u)
  /\ issued' = issued \cup {EncodeState(u, ts)}
  /\ UNCHANGED <<acct, jwts, nextGrant, rf, gate, cb>>
  /\ UNCHANGED <<tokenVars, importVars, analyzeVars, syncVars, exportVars, shareVars, clientVars, compareVars, storeVars, sessVars>>

\* the row prisma.user.update writes in handleZoomCallback
ConnectedAcct(old, g) ==
  [old EXCEPT !.zoomUserId = g, !.zoomConnected = TRUE,
              !.accessToken = g, !.refreshToken = g]

\* POST /auth/zoom/callback, sent by caller with a state of its choice
ZoomCallback(caller, state, exchangeOk) ==
  /\ Authenticated(caller)
  /\ nextGrant <= MaxGrants
  /\ LET userId == StateUserId(state)
         base == [caller |-> caller, state |-> state, issued |-> state \in issued,
                  status |-> "400", changed |-> 0]
     IN  IF ~ StateParses(state) \/ userId = NULL \/ ~ exchangeOk
           THEN /\ cb' = base
                /\ UNCHANGED <<acct, jwts, nextGrant>>
         ELSE IF userId \notin AuthUsers \/ ~ acct[userId].exists
           THEN /\ cb' = [base EXCEPT !.status = "500"]
                /\ nextGrant' = nextGrant + 1
                /\ UNCHANGED <<acct, jwts>>
         ELSE /\ acct' = [acct EXCEPT ![userId] = ConnectedAcct(@, nextGrant)]
              /\ nextGrant' = nextGrant + 1
              /\ jwts' = jwts \cup {userId}
              /\ cb' = [base EXCEPT !.status = "200", !.changed = userId]
  /\ UNCHANGED <<issued, rf, gate>>
  /\ UNCHANGED <<tokenVars, importVars, analyzeVars, syncVars, exportVars, shareVars, clientVars, compareVars, storeVars, sessVars>>

\* the row createOrUpdateUserFromZoom upserts: zoomConnected is not written
UpsertedAcct(old, g) ==
  [(IF old.exists THEN old ELSE NewAcct) EXCEPT
     !.zoomUserId = g, !.accessToken = g, !.refreshToken = g]

\* GET /auth/zoom/callback: the redirect of the provider, for the Zoom account
\* with e-mail address e
ZoomRedirectCallback(e) ==
  /\ nextGrant <= MaxGrants
  /\ acct' = [acct EXCEPT ![e] = UpsertedAcct(@, nextGrant)]
  /\ nextGrant' = nextGrant + 1
  /\ jwts' = jwts \cup {e}
  /\ UNCHANGED <<issued, rf, gate, cb>>
  /\ UNCHANGED <<tokenVars, importVars, analyzeVars, syncVars, exportVars, shareVars, clientVars, compareVars, storeVars, sessVars>>

\* GET /auth/zoom/callback: the exchange or the user-info request failed
ZoomRedirectCallback_Fail ==
  /\ nextGrant <= MaxGrants
  /\ nextGrant' = nextGrant + 1
  /\ UNCHANGED <<acct, jwts, issued, rf, gate, cb>>
  /\ UNCHANGED <<tokenVars, importVars, analyzeVars, syncVars, exportVars, shareVars, clientVars, compareVars, storeVars, sessVars>>

\* POST /auth/zoom/disconnect
DisconnectZoom(u) ==
  /\ Authenticated(u)
  /\ acct' = [acct EXCEPT ![u] =
                [@ EXCEPT !.zoomUserId = NULL, !.accessToken = NULL, !.refreshToken = NULL]]
  /\ UNCHANGED <<jwts, issued, nextGrant, rf, gate, cb>>
  /\ UNCHANGED <<tokenVars, importVars, analyzeVars, syncVars, exportVars, shareVars, clientVars, compareVars, storeVars, sessVars>>

\* getValidAccessToken found an expired access token and a refresh token
AcctRefresh_Read(u) ==
  /\ acct[u].exists
  /\ acct[u].accessToken # NULL
  /\ acct[u].refreshToken # NULL
  /\ u \notin rf
  /\ rf' = rf \cup {u}
  /\ UNCHANGED <<acct, jwts, issued, nextGrant, gate, cb>>
  /\ UNCHANGED <<tokenVars, importVars, analyzeVars, syncVars, exportVars, shareVars, clientVars, compareVars, storeVars, sessVars>>

\* getValidAccessToken: prisma.user.update with the refreshed tokens
AcctRefresh_Persist(u) ==
  /\ u \in rf
  /\ nextGrant <= MaxGrants
  /\ acct' = [acct EXCEPT ![u] = [@ EXCEPT !.accessToken = nextGrant,
                                           !.refreshToken = nextGrant]]
  /\ nextGrant' = nextGrant + 1
  /\ rf' = rf \ {u}
  /\ UNCHANGED <<jwts, issued, gate, cb>>
  /\ UNCHANGED <<tokenVars, importVars, analyzeVars, syncVars, exportVars, shareVars, clientVars, compareVars, storeVars, sessVars>>

\* ZoomService.refreshAccessToken threw
AcctRefresh_Fail(u) ==
  /\ u \in rf
  /\ rf' = rf \ {u}
  /\ UNCHANGED <<acct, jwts, issued, nextGrant, gate, cb>>
  /\ UNCHANGED <<tokenVars, importVars, analyzeVars, syncVars, exportVars, shareVars, clientVars, compareVars, storeVars, sessVars>>

\* requireZoomAuth: passes when user.zoomUserId is set
PassesZoomGate(user) == user.zoomUserId # NULL

\* authMiddleware and requireZoomAuth in front of a Zoom-gated handler
ZoomGated_Start(p, u) ==
  /\ gate[p].pc = "idle"
  /\ Authenticated(u)
  /\ gate' = [gate EXCEPT ![p] =
       IF PassesZoomGate(acct[u])
         THEN [IdleGate EXCEPT !.pc = "handler", !.user = u, !.flag = acct[u].zoomConnected]
         ELSE [IdleGate EXCEPT !.pc = "done", !.user = u, !.flag = acct[u].zoomConnected,
                               !.status = "403"]]
  /\ UNCHANGED <<acct, jwts, issued, nextGrant, rf, cb>>
  /\ UNCHANGED <<tokenVars, importVars, analyzeVars, syncVars, exportVars, shareVars, clientVars, compareVars, storeVars, sessVars>>

\* the gated handler: the provider is called when the row has an access
\* token, and rows are written when the provider answered
ZoomGated_Run(p, providerOk) ==
  /\ gate[p].pc = "handler"
  /\ LET hasToken == acct[gate[p].user].accessToken # NULL
     IN  gate' = [gate EXCEPT ![p] =
           [@ EXCEPT !.pc = "done", !.provider = hasToken,
                     !.wrote = hasToken /\ providerOk,
                     !.status = IF hasToken /\ providerOk THEN "200" ELSE "error"]]
  /\ UNCHANGED <<acct, jwts, issued, nextGrant, rf, cb>>
  /\ UNCHANGED <<tokenVars, importVars, analyzeVars, syncVars, exportVars, shareVars, clientVars, compareVars, storeVars, sessVars>>

ZoomGated_Return(p) ==
  /\ gate[p].pc = "done"
  /\ gate' = [gate EXCEPT ![p] = IdleGate]
  /\ UNCHANGED <<acct, jwts, issued, nextGrant, rf, cb>>
  /\ UNCHANGED <<tokenVars, importVars, analyzeVars, syncVars, exportVars, shareVars, clientVars, compareVars, storeVars, sessVars>>

AuthNext ==
  \/ \E u \in AuthUsers : Register(u)
  \/ \E u \in AuthUsers : Login(u)
  \/ \E u \in AuthUsers, ts \in Timestamps : GenerateZoomUrl(u, ts)
  \/ \E u \in AuthUsers, s \in StateParams, ok \in BOOLEAN : ZoomCallback(u, s, ok)
  \/ \E e \in AuthUsers : ZoomRedirectCallback(e)
  \/ ZoomRedirectCallback_Fail
  \/ \E u \in AuthUsers : DisconnectZoom(u)
  \/ \E u \in AuthUsers : AcctRefresh_Read(u)
  \/ \E u \in AuthUsers : AcctRefresh_Persist(u)
  \/ \E u \in AuthUsers : AcctRefresh_Fail(u)
  \/ \E p \in GatedProcs, u \in AuthUsers : ZoomGated_Start(p, u)
  \/ \E p \in GatedProcs, ok \in BOOLEAN : ZoomGated_Run(p, ok)
  \/ \E p \in GatedProcs : ZoomGated_Return(p)

(* ------------------------- sharing a meeting summary ------------------- *)
NumSharers == 2

Sharers == 1..NumSharers

IdleSh == [pc |-> "idle", meeting |-> 0, recipients |-> FALSE, channel |-> FALSE,
           emailTries |-> 0, slackTries |-> 0, emailFailed |-> FALSE,
           slackFailed |-> FALSE, status |-> "none", message |-> "none"]

ShareInitIdle == sh = [p \in Sharers |-> IdleSh]

\* meetings with and without a summary, before a share request
ShareInit ==
  /\ \E sums \in [Meetings -> {NULL} \cup Summaries] :
       meetings = [m \in Meetings |->
                     [MeetingRow(ZoomId(m), 1, NoName, "transcript") EXCEPT !.summary = sums[m]]]
  /\ tasks \in SUBSET {ManualTask(m) : m \in Meetings}
  /\ nextTaskId = 1
  /\ an = [p \in Analyzers |-> IdleAn]
  /\ ShareInitIdle

\* sendMeetingSummaryNotification after the e-mail step: the Slack message
\* when a channel is given, else the function returns
AfterEmail(r) ==
  IF r.channel THEN [r EXCEPT !.pc = "slack"]
               ELSE [r EXCEPT !.pc = "done", !.status = "200"]

\* sendMeetingSummaryNotification after the content is prepared: the e-mail
\* when there are recipients, else the Slack step
AfterPrepare(r) ==
  IF r.recipients THEN [r EXCEPT !.pc = "email"] ELSE AfterEmail(r)

\* POST /:id/share: ownership and summary checks, then the meeting is loaded
\* and the content prepared; recipients: emails is a non-empty list,
\* channel: slackChannel is given
ShareMeeting_Start(p, m, recipients, channel) ==
  /\ sh[p].pc = "idle"
  /\ sh' = [sh EXCEPT ![p] =
       IF m \notin Meetings
         THEN [IdleSh EXCEPT !.pc = "done", !.status = "404"]
       ELSE IF meetings[m].summary = NULL
         THEN [IdleSh EXCEPT !.pc = "done", !.meeting = m, !.status = "400"]
       ELSE AfterPrepare([IdleSh EXCEPT !.meeting = m, !.recipients = recipients,
                                        !.channel = channel])]
  /\ UNCHANGED <<tokenVars, importVars, analyzeVars, syncVars, exportVars, authVars, clientVars, compareVars, storeVars, sessVars>>

\* sendEmailNotification: sendMail resolved
SendEmail_Ok(p) ==
  /\ sh[p].pc = "email"
  /\ sh' = [sh EXCEPT ![p] = AfterEmail([@ EXCEPT !.emailTries = @ + 1])]
  /\ UNCHANGED <<tokenVars, importVars, analyzeVars, syncVars, exportVars, authVars, clientVars, compareVars, storeVars, sessVars>>

\* sendEmailNotification: sendMail rejected; HTTPException(500) leaves
\* sendMeetingSummaryNotification and the route
SendEmail_Fail(p) ==
  /\ sh[p].pc = "email"
  /\ sh' = [sh EXCEPT ![p] = [@ EXCEPT !.pc = "done", !.emailTries = @ + 1,
                                       !.emailFailed = TRUE, !.status = "500",
                                       !.message = "Failed to send email notification"]]
  /\ UNCHANGED <<tokenVars, importVars, analyzeVars, syncVars, exportVars, authVars, clientVars, compareVars, storeVars, sessVars>>

\* sendSlackNotification: chat.postMessage resolved
SendSlack_Ok(p) ==
  /\ sh[p].pc = "slack"
  /\ sh' = [sh EXCEPT ![p] = [@ EXCEPT !.pc = "done", !.slackTries = @ + 1,
                                       !.status = "200"]]
  /\ UNCHANGED <<tokenVars, importVars, analyzeVars, syncVars, exportVars, authVars, clientVars, compareVars, storeVars, sessVars>>

\* sendSlackNotification: chat.postMessage rejected; HTTPException(500)
SendSlack_Fail(p) ==
  /\ sh[p].pc = "slack"
  /\ sh' = [sh EXCEPT ![p] = [@ EXCEPT !.pc = "done", !.slackTries = @ + 1,
                                       !.slackFailed = TRUE, !.status = "500",
                                       !.message = "Failed to send Slack notification"]]
  /\ UNCHANGED <<tokenVars, importVars, analyzeVars, syncVars, exportVars, authVars, clientVars, compareVars, storeVars, sessVars>>

ShareNext ==
  \/ \E p \in Sharers, m \in RequestMeetingIds, e \in BOOLEAN, c \in BOOLEAN :
        ShareMeeting_Start(p, m, e, c)
  \/ \E p \in Sharers : SendEmail_Ok(p)
  \/ \E p \in Sharers : SendEmail_Fail(p)
  \/ \E p \in Sharers : SendSlack_Ok(p)
  \/ \E p \in Sharers : SendSlack_Fail(p)

(* ------------------ Zoom client calls and their callers ---------------- *)
NumClients == 2

Clients == 1..NumClients

\* the routes that call the Zoom client, and the client calls each makes
\* (sync for a page of one new meeting, import for one requested file)
ClientKinds == {"sync", "recording", "transcript", "import"}

ClientCalls(kind) ==
  CASE kind = "sync" -> <<"getMeetings", "getMeetingRecordings", "getMeetingTranscript">>
    [] kind = "recording" -> <<"getMeetingRecordings">>
    [] kind = "transcript" -> <<"getMeetingTranscript">>
    [] kind = "import" -> <<"getMeetingRecordings", "downloadRecordingFile">>
    [] OTHER -> <<>>

\* what getValidAccessToken meets: a valid token, no token, an expired token
\* without refresh token, a refresh that succeeds, a refresh that fails
TokenOutcomes == {"valid", "missing", "no_refresh_token", "refreshed", "refresh_failed"}

\* what the provider answers to the call
ProviderOutcomes == {"ok", "401", "404", "error"}

\* getValidAccessToken: the exception it throws, "none" when it returns a token
TokenThrows(outcome) ==
  CASE outcome = "missing" ->
         [status |-> "401", message |-> "Zoom authentication required"]
    [] outcome = "no_refresh_token" ->
         [status |-> "401", message |-> "Zoom re-authentication required"]
    [] outcome = "refresh_failed" ->
         [status |-> "400", message |-> "Failed to refresh access token"]
    [] OTHER -> [status |-> "none", message |-> "none"]

\* the catch block of each client call: what the call returns or throws for
\* the provider's answer
ClientResult(clientCall, answer) ==
  IF answer = "ok" THEN [status |-> "ok", message |-> "none"]
  ELSE IF clientCall = "getMeetingRecordings" /\ answer = "404"
    THEN [status |-> "404", message |-> "Meeting recordings not found"]
  ELSE IF clientCall = "getMeetingTranscript" /\ answer = "404"
    THEN [status |-> "null", message |-> "none"]
  ELSE [status |-> "500",
        message |-> CASE clientCall = "getMeetings" -> "Failed to fetch meetings"
                      [] clientCall = "getMeetingRecordings" -> "Failed to fetch meeting recordings"
                      [] clientCall = "getMeetingTranscript" -> "Failed to fetch meeting transcript"
                      [] OTHER -> "Failed to download recording file"]

IdleZc == [pc |-> "idle", kind |-> "none", k |-> 0, log |-> <<>>, errors |-> 0,
           status |-> "none", success |-> FALSE, message |-> "none"]

ClientInitIdle == zc = [p \in Clients |-> IdleZc]

Responds(r, status, success, message) ==
  [r EXCEPT !.pc = "done", !.status = status, !.success = success, !.message = message]

NextClientCall(r) == [r EXCEPT !.pc = "token", !.k = @ + 1]

\* what the caller does with the result of its k-th client call
CallerHandles(r, result) ==
  LET threw == result.status \notin {"ok", "null"}
  IN  CASE r.kind = "sync" /\ r.k = 1 ->
             IF threw THEN Responds([r EXCEPT !.errors = @ + 1], "200", TRUE, "Synced")
                      ELSE NextClientCall(r)
        [] r.kind = "sync" /\ r.k = 2 -> NextClientCall(r)
        [] r.kind = "sync" /\ r.k = 3 -> Responds(r, "200", TRUE, "Synced")
        [] r.kind = "recording" ->
             IF threw THEN Responds(r, result.status, FALSE, result.message)
                      ELSE Responds(r, "200", TRUE, "none")
        [] r.kind = "transcript" ->
             IF threw THEN Responds(r, result.status, FALSE, result.message)
             ELSE IF result.status = "null"
               THEN Responds(r, "200", FALSE, "No transcript available for this meeting")
             ELSE Responds(r, "200", TRUE, "none")
        [] r.kind = "import" /\ r.k = 1 ->
             IF threw THEN Responds(r, result.status, FALSE, result.message)
                      ELSE NextClientCall(r)
        [] r.kind = "import" /\ r.k = 2 ->
             IF threw THEN Responds([r EXCEPT !.errors = @ + 1], "200", TRUE, "Imported")
                      ELSE Responds(r, "200", TRUE, "Imported")
        [] OTHER -> r

\* a gated route reaches its first client call
ZoomRequest_Start(p, kind) ==
  /\ zc[p].pc = "idle"
  /\ zc' = [zc EXCEPT ![p] = NextClientCall([IdleZc EXCEPT !.kind = kind])]
  /\ UNCHANGED <<tokenVars, importVars, analyzeVars, syncVars, exportVars, authVars, shareVars, compareVars, storeVars, sessVars>>

\* getValidAccessToken at the head of the client call
ClientGetToken(p, outcome) ==
  /\ zc[p].pc = "token"
  /\ LET r == zc[p]
         thrown == TokenThrows(outcome)
         entry == [call |-> ClientCalls(r.kind)[r.k], token |-> outcome,
                   provider |-> "none", result |-> thrown.status]
     IN  zc' = [zc EXCEPT ![p] =
           IF thrown.status = "none"
             THEN [r EXCEPT !.pc = "provider", !.log = Append(@, entry)]
             ELSE CallerHandles([r EXCEPT !.log = Append(@, entry)], thrown)]
  /\ UNCHANGED <<tokenVars, importVars, analyzeVars, syncVars, exportVars, authVars, shareVars, compareVars, storeVars, sessVars>>

\* the HTTP request of the client call and its catch block
ClientRequest(p, answer) ==
  /\ zc[p].pc = "provider"
  /\ LET r == zc[p]
         n == Len(r.log)
         result == ClientResult(r.log[n].call, answer)
         r2 == [r EXCEPT !.log[n].provider = answer, !.log[n].result = result.status]
     IN  zc' = [zc EXCEPT ![p] = CallerHandles(r2, result)]
  /\ UNCHANGED <<tokenVars, importVars, analyzeVars, syncVars, exportVars, authVars, shareVars, compareVars, storeVars, sessVars>>

ClientNext ==
  \/ \E p \in Clients, kind \in ClientKinds : ZoomRequest_Start(p, kind)
  \/ \E p \in Clients, o \in TokenOutcomes : ClientGetToken(p, o)
  \/ \E p \in Clients, a \in ProviderOutcomes : ClientRequest(p, a)

(* ------------- single import and batch import on one meeting ----------- *)
\* the outcome of one sequential run of a file loop: the downloadUrls of the
\* Recording rows it created, the Meeting's recordingUrl, and the indices of
\* the files it reported as imported and as failed
LoopStart(priorUrl) == [rows |-> <<>>, url |-> priorUrl, imported |-> <<>>, failed |-> <<>>]

\* per file of a provider list: download, write and insert all succeed
FileOutcomes == [1..MaxFiles -> BOOLEAN]

\* POST /:id/import-recording: the file loop, against the meeting object and
\* its recordings read before the loop
RECURSIVE SingleImportLoop(_, _, _, _, _, _, _)
SingleImportLoop(list, j, types, snap, snapUrl, ok, st) ==
  IF j > Len(list) THEN st
  ELSE IF ~ IsRequestedType(types, FileTypeOf(list[j])) \/ AlreadyImported(snap, list[j])
    THEN SingleImportLoop(list, j + 1, types, snap, snapUrl, ok, st)
  ELSE IF ~ ok[j]
    THEN SingleImportLoop(list, j + 1, types, snap, snapUrl, ok,
                          [st EXCEPT !.failed = Append(@, j)])
  ELSE SingleImportLoop(list, j + 1, types, snap, snapUrl, ok,
         [st EXCEPT !.rows = Append(@, list[j]), !.imported = Append(@, j),
                    !.url = IF FileTypeOf(list[j]) = "MP4" /\ snapUrl = NoName
                              THEN generateFileName(1, "MP4", j) ELSE @])

\* POST /batch-import-recordings: the file loop of one meeting, with
\* findFirst on the table as it is at that file; a failed file is logged only
RECURSIVE BatchImportLoop(_, _, _, _, _, _)
BatchImportLoop(list, j, types, prior, ok, st) ==
  IF j > Len(list) THEN st
  ELSE IF ~ IsRequestedType(types, FileTypeOf(list[j]))
            \/ list[j] \in prior \/ (\E k \in DOMAIN st.rows : st.rows[k] = list[j])
    THEN BatchImportLoop(list, j + 1, types, prior, ok, st)
  ELSE IF ~ ok[j]
    THEN BatchImportLoop(list, j + 1, types, prior, ok, st)
  ELSE BatchImportLoop(list, j + 1, types, prior, ok,
         [st EXCEPT !.rows = Append(@, list[j]), !.imported = Append(@, j),
                    !.url = IF FileTypeOf(list[j]) = "MP4"
                              THEN generateFileName(1, "MP4", j) ELSE @])

IdleCmp == [pc |-> "idle", list |-> <<>>, types |-> {}, prior |-> {}, priorUrl |-> NoName,
            ok |-> [k \in 1..MaxFiles |-> TRUE],
            single |-> LoopStart(NoName), batch |-> LoopStart(NoName)]

CompareInitIdle == cmp = IdleCmp

\* both imports run, each alone, from the same database state against the
\* same non-empty provider list with the same outcome per file
RunBothImports(list, types, prior, priorUrl, ok) ==
  /\ cmp.pc = "idle"
  /\ Len(list) > 0
  /\ cmp' = [pc |-> "done", list |-> list, types |-> types, prior |-> prior,
             priorUrl |-> priorUrl, ok |-> ok,
             single |-> SingleImportLoop(list, 1, types, prior, priorUrl, ok,
                                         LoopStart(priorUrl)),
             batch |-> BatchImportLoop(list, 1, types, prior, ok, LoopStart(priorUrl))]
  /\ UNCHANGED <<tokenVars, importVars, analyzeVars, syncVars, exportVars, authVars, shareVars, clientVars, storeVars, sessVars>>

\* the next pair of runs
CompareReset ==
  /\ cmp.pc = "done"
  /\ cmp' = IdleCmp
  /\ UNCHANGED <<tokenVars, importVars, analyzeVars, syncVars, exportVars, authVars, shareVars, clientVars, storeVars, sessVars>>

CompareNext ==
  \/ \E list \in FileLists, types \in RequestedTypeSets, prior \in SUBSET Urls,
        priorUrl \in {NoName, PlayUrl}, ok \in FileOutcomes :
        RunBothImports(list, types, prior, priorUrl, ok)
  \/ CompareReset

\* ---------------------------------------------------------------------------
\* Recording storage: files on disk and Recording rows under import, delete
\* and cleanup (StorageService, DELETE /:id/recordings/:recordingId,
\* POST /recordings/cleanup)
\* ---------------------------------------------------------------------------

NumStoreUsers == 2
MaxStored == 2
MaxClock == 2
MaxKeep == 1

StoreUsers == 1..NumStoreUsers

\* one meeting per user: meeting m belongs to user m
StoreMeetings == StoreUsers

MeetingOwner(m) == m

\* file types of recording_files; TRANSCRIPT and CC share an extension
StoredTypes == {"MP4", "TRANSCRIPT", "CC"}

\* daysToKeep of the cleanup body, taken as sent
KeepDays == 0..MaxKeep

IdleOp == [pc |-> "idle", user |-> 0, meeting |-> 0, name |-> NoName, id |-> 0, keep |-> 0]

StoreInitIdle ==
  /\ disk = <<>>
  /\ recRows = {}
  /\ clock = 0
  /\ nextFile = 1
  /\ op = IdleOp

\* Date.now() moves on
StoreTick ==
  /\ clock < MaxClock
  /\ clock' = clock + 1
  /\ UNCHANGED <<disk, recRows, nextFile, op>>
  /\ UNCHANGED <<tokenVars, importVars, analyzeVars, syncVars, exportVars, authVars, shareVars, clientVars, compareVars, sessVars>>

\* StorageService.storeRecordingLocally for a file of the caller's meeting:
\* fs.writeFile under the generated name, replacing what is there
StoreRecordingLocally(u, m, fileType) ==
  /\ op.pc = "idle"
  /\ nextFile <= MaxStored
  /\ MeetingOwner(m) = u
  /\ LET name == generateFileName(m, fileType, clock)
     IN /\ disk' = [n \in DOMAIN disk \cup {name} |->
                      IF n = name THEN [content |-> nextFile, mtime |-> clock] ELSE disk[n]]
        /\ op' = [IdleOp EXCEPT !.pc = "written", !.user = u, !.meeting = m,
                                !.name = name, !.id = nextFile]
  /\ nextFile' = nextFile + 1
  /\ UNCHANGED <<recRows, clock>>
  /\ UNCHANGED <<tokenVars, importVars, analyzeVars, syncVars, exportVars, authVars, shareVars, clientVars, compareVars, sessVars>>

\* StorageService.storeRecordingMetadata: prisma.recording.create
StoreRecordingMetadata ==
  /\ op.pc = "written"
  /\ recRows' = recRows \cup {[id |-> op.id, meetingId |-> op.meeting,
                               fileUrl |-> op.name, createdAt |-> clock]}
  /\ op' = IdleOp
  /\ UNCHANGED <<disk, clock, nextFile>>
  /\ UNCHANGED <<tokenVars, importVars, analyzeVars, syncVars, exportVars, authVars, shareVars, clientVars, compareVars, sessVars>>

\* prisma.recording.create throws: the import reports the file as failed
StoreRecordingMetadata_Fail ==
  /\ op.pc = "written"
  /\ op' = IdleOp
  /\ UNCHANGED <<disk, recRows, clock, nextFile>>
  /\ UNCHANGED <<tokenVars, importVars, analyzeVars, syncVars, exportVars, authVars, shareVars, clientVars, compareVars, sessVars>>

\* DELETE /:id/recordings/:recordingId, first half: the row is looked up under
\* the caller's meeting and StorageService.deleteRecording unlinks its file
DeleteRecording_Unlink(u, id) ==
  /\ op.pc = "idle"
  /\ \E r \in recRows :
       /\ r.id = id
       /\ MeetingOwner(r.meetingId) = u
       /\ disk' = [n \in DOMAIN disk \ {r.fileUrl} |-> disk[n]]
       /\ op' = [IdleOp EXCEPT !.pc = "unlinked", !.user = u, !.meeting = r.meetingId,
                               !.name = r.fileUrl, !.id = id]
  /\ UNCHANGED <<recRows, clock, nextFile>>
  /\ UNCHANGED <<tokenVars, importVars, analyzeVars, syncVars, exportVars, authVars, shareVars, clientVars, compareVars, sessVars>>

\* second half: prisma.recording.delete
DeleteRecording_Row ==
  /\ op.pc = "unlinked"
  /\ recRows' = {r \in recRows : r.id # op.id}
  /\ op' = IdleOp
  /\ UNCHANGED <<disk, clock, nextFile>>
  /\ UNCHANGED <<tokenVars, importVars, analyzeVars, syncVars, exportVars, authVars, shareVars, clientVars, compareVars, sessVars>>

\* prisma.recording.delete throws: answered 500
DeleteRecording_RowFail ==
  /\ op.pc = "unlinked"
  /\ op' = IdleOp
  /\ UNCHANGED <<disk, recRows, clock, nextFile>>
  /\ UNCHANGED <<tokenVars, importVars, analyzeVars, syncVars, exportVars, authVars, shareVars, clientVars, compareVars, sessVars>>

\* POST /recordings/cleanup, first half: StorageService.cleanupOldRecordings
\* unlinks every file of the directory whose mtime is before the cutoff
CleanupOldRecordings(u, daysToKeep) ==
  /\ op.pc = "idle"
  /\ LET cutoffDate == clock - daysToKeep
     IN disk' = [n \in {x \in DOMAIN disk : ~(disk[x].mtime < cutoffDate)} |-> disk[n]]
  /\ op' = [IdleOp EXCEPT !.pc = "swept", !.user = u, !.keep = daysToKeep]
  /\ UNCHANGED <<recRows, clock, nextFile>>
  /\ UNCHANGED <<tokenVars, importVars, analyzeVars, syncVars, exportVars, authVars, shareVars, clientVars, compareVars, sessVars>>

\* second half: prisma.recording.deleteMany on createdAt before a cutoff
\* computed anew
Cleanup_DeleteMany ==
  /\ op.pc = "swept"
  /\ LET cutoffDate == clock - op.keep
     IN recRows' = {r \in recRows : ~(r.createdAt < cutoffDate)}
  /\ op' = IdleOp
  /\ UNCHANGED <<disk, clock, nextFile>>
  /\ UNCHANGED <<tokenVars, importVars, analyzeVars, syncVars, exportVars, authVars, shareVars, clientVars, compareVars, sessVars>>

StoreNext ==
  \/ StoreTick
  \/ \E u \in StoreUsers, m \in StoreMeetings, t \in StoredTypes : StoreRecordingLocally(u, m, t)
  \/ StoreRecordingMetadata
  \/ StoreRecordingMetadata_Fail
  \/ \E u \in StoreUsers, id \in 1..MaxStored : DeleteRecording_Unlink(u, id)
  \/ DeleteRecording_Row
  \/ DeleteRecording_RowFail
  \/ \E u \in StoreUsers, k \in KeepDays : CleanupOldRecordings(u, k)
  \/ Cleanup_DeleteMany

\* ---------------------------------------------------------------------------
\* Sessions and e-mail verification: AuthService register, login, verifyOTP,
\* resendOTP, refreshToken
\* ---------------------------------------------------------------------------

NumSessUsers == 1
NumVerifiers == 2
NumOtps == 2
MaxSessTime == 3

\* lifetimes in steps of the clock: 10 minutes for an OTP, config.jwtExpiration
\* for an access token, 30d for a refresh token
OtpTtl == 1
AccessTtl == 1
RefreshTtl == 2

SessUsers == 1..NumSessUsers
Verifiers == 1..NumVerifiers

\* generateOTP draws a code at random
Otps == 1..NumOtps

NoSessUser == [exists |-> FALSE, emailVerified |-> FALSE, otp |-> NULL, otpExpiresAt |-> NULL]

NoToken == [user |-> 0, kind |-> "none", exp |-> 0]

\* tokens a client may present; one that is not in toks was not signed with
\* jwtSecret
SessionTokens ==
  [user : SessUsers, kind : {"access", "refresh"}, exp : 0..(MaxSessTime + RefreshTtl)]

IdleVr == [pc |-> "idle", user |-> 0, code |-> NULL, status |-> "none"]

SessInitIdle ==
  /\ su = [u \in SessUsers |-> NoSessUser]
  /\ otpNow = 0
  /\ vr = [p \in Verifiers |-> IdleVr]
  /\ toks = {}
  /\ rr = [given |-> NoToken, status |-> "none"]

\* generateAccessToken and generateRefreshToken: the same payload, secret,
\* issuer and audience, a different expiresIn
generateAccessToken(u) == [user |-> u, kind |-> "access", exp |-> otpNow + AccessTtl]

generateRefreshToken(u) == [user |-> u, kind |-> "refresh", exp |-> otpNow + RefreshTtl]

\* verifyToken: jwt.verify on signature, issuer, audience and expiry
verifyToken(tok) == tok \in toks /\ tok.exp >= otpNow

SessTick ==
  /\ otpNow < MaxSessTime
  /\ otpNow' = otpNow + 1
  /\ UNCHANGED <<su, vr, toks, rr>>
  /\ UNCHANGED <<tokenVars, importVars, analyzeVars, syncVars, exportVars, authVars, shareVars, clientVars, compareVars, storeVars>>

\* AuthService.register: the user is created unverified with an OTP
RegisterUser(u, otp) ==
  /\ ~ su[u].exists
  /\ su' = [su EXCEPT ![u] = [exists |-> TRUE, emailVerified |-> FALSE, otp |-> otp,
                              otpExpiresAt |-> otpNow + OtpTtl]]
  /\ toks' = toks \cup {generateAccessToken(u), generateRefreshToken(u)}
  /\ UNCHANGED <<otpNow, vr, rr>>
  /\ UNCHANGED <<tokenVars, importVars, analyzeVars, syncVars, exportVars, authVars, shareVars, clientVars, compareVars, storeVars>>

\* AuthService.login with the right password: an unverified user gets a new OTP
LoginUser(u, otp) ==
  /\ su[u].exists
  /\ su' = [su EXCEPT ![u] =
              IF ~ @.emailVerified
                THEN [@ EXCEPT !.otp = otp, !.otpExpiresAt = otpNow + OtpTtl]
                ELSE @]
  /\ toks' = toks \cup {generateAccessToken(u), generateRefreshToken(u)}
  /\ UNCHANGED <<otpNow, vr, rr>>
  /\ UNCHANGED <<tokenVars, importVars, analyzeVars, syncVars, exportVars, authVars, shareVars, clientVars, compareVars, storeVars>>

\* AuthService.resendOTP
ResendOTP(u, otp) ==
  /\ su[u].exists
  /\ ~ su[u].emailVerified
  /\ su' = [su EXCEPT ![u] = [@ EXCEPT !.otp = otp, !.otpExpiresAt = otpNow + OtpTtl]]
  /\ UNCHANGED <<otpNow, vr, toks, rr>>
  /\ UNCHANGED <<tokenVars, importVars, analyzeVars, syncVars, exportVars, authVars, shareVars, clientVars, compareVars, storeVars>>

\* AuthService.verifyOTP up to the update: findUnique and the checks on what
\* it read
VerifyOTP_Check(p, u, code) ==
  /\ vr[p].pc = "idle"
  /\ LET user == su[u]
         r == [IdleVr EXCEPT !.user = u, !.code = code]
     IN  vr' = [vr EXCEPT ![p] =
           IF ~ user.exists THEN [r EXCEPT !.pc = "done", !.status = "404"]
           ELSE IF user.emailVerified \/ user.otp = NULL \/ otpNow > user.otpExpiresAt
                   \/ user.otp # code
             THEN [r EXCEPT !.pc = "done", !.status = "400"]
           ELSE [r EXCEPT !.pc = "update"]]
  /\ UNCHANGED <<su, otpNow, toks, rr>>
  /\ UNCHANGED <<tokenVars, importVars, analyzeVars, syncVars, exportVars, authVars, shareVars, clientVars, compareVars, storeVars>>

\* AuthService.verifyOTP: prisma.user.update and the new tokens
VerifyOTP_Update(p) ==
  /\ vr[p].pc = "update"
  /\ su' = [su EXCEPT ![vr[p].user] =
              [@ EXCEPT !.emailVerified = TRUE, !.otp = NULL, !.otpExpiresAt = NULL]]
  /\ toks' = toks \cup {generateAccessToken(vr[p].user), generateRefreshToken(vr[p].user)}
  /\ vr' = [vr EXCEPT ![p] = [@ EXCEPT !.pc = "done", !.status = "200"]]
  /\ UNCHANGED <<otpNow, rr>>
  /\ UNCHANGED <<tokenVars, importVars, analyzeVars, syncVars, exportVars, authVars, shareVars, clientVars, compareVars, storeVars>>

\* POST /auth/refresh -> AuthService.refreshToken
RefreshToken(tok) ==
  /\ IF verifyToken(tok) /\ su[tok.user].exists
       THEN /\ toks' = toks \cup {generateAccessToken(tok.user), generateRefreshToken(tok.user)}
            /\ rr' = [given |-> tok, status |-> "200"]
       ELSE /\ rr' = [given |-> tok, status |-> "401"]
            /\ UNCHANGED toks
  /\ UNCHANGED <<su, otpNow, vr>>
  /\ UNCHANGED <<tokenVars, importVars, analyzeVars, syncVars, exportVars, authVars, shareVars, clientVars, compareVars, storeVars>>

SessNext ==
  \/ SessTick
  \/ \E u \in SessUsers, otp \in Otps : RegisterUser(u, otp)
  \/ \E u \in SessUsers, otp \in Otps : LoginUser(u, otp)
  \/ \E u \in SessUsers, otp \in Otps : ResendOTP(u, otp)
  \/ \E p \in Verifiers, u \in SessUsers, code \in Otps : VerifyOTP_Check(p, u, code)
  \/ \E p \in Verifiers : VerifyOTP_Update(p)
  \/ \E tok \in SessionTokens : RefreshToken(tok)

\* the later handlers at rest
ExtraInitIdle == ExportInitIdle /\ AuthInitIdle /\ ShareInitIdle /\ ClientInitIdle /\ CompareInitIdle /\ StoreInitIdle /\ SessInitIdle

(* --------------------------- specifications --------------------------- *)
ImportTablesIdle ==
  /\ provFiles = [m \in Meetings |-> <<>>]
  /\ recordings = {}
  /\ nextRecId = 1
  /\ files = [n \in {} |-> 0]
  /\ written = {}
  /\ imp = [p \in Procs |-> IdleImp]

\* the token manager alone
InitToken == TokenInit /\ ImportInitIdle /\ AnalyzeInitIdle /\ SyncInitIdle /\ ExtraInitIdle

SpecToken == InitToken /\ [][TokenNext]_vars

\* the import handlers alone
InitImport == ImportInit /\ TokenInit /\ AnalyzeInitIdle /\ SyncInitIdle /\ ExtraInitIdle

SpecImport == InitImport /\ [][ImportNext]_vars

\* the analyze handler alone
InitAnalyze == AnalyzeInit /\ TokenInit /\ ImportTablesIdle /\ SyncInitIdle /\ ExtraInitIdle

SpecAnalyze == InitAnalyze /\ [][AnalyzeNext]_vars

\* meeting sync and CSV upload on a deployment without OPENAI_API_KEY
InitSync == SyncInit /\ openaiKey = FALSE /\ TokenInit /\ ImportTablesIdle /\ ExtraInitIdle

SpecSync == InitSync /\ [][SyncNext]_vars

\* CSV upload on a deployment with OPENAI_API_KEY
InitCsv == SyncInit /\ openaiKey = TRUE /\ TokenInit /\ ImportTablesIdle /\ ExtraInitIdle

SpecCsv == InitCsv /\ [][CsvNext]_vars

\* the export handler alone
InitExport == ExportInit /\ TokenInit /\ ImportTablesIdle /\ SyncInitIdle /\ AuthInitIdle
              /\ ShareInitIdle /\ ClientInitIdle /\ CompareInitIdle /\ StoreInitIdle /\ SessInitIdle

SpecExport == InitExport /\ [][ExportNext]_vars

\* the account and Zoom connection handlers alone
InitAuth == AuthInitIdle /\ ExportInitIdle /\ TokenInit /\ ImportInitIdle /\ AnalyzeInitIdle
            /\ SyncInitIdle /\ ShareInitIdle /\ ClientInitIdle /\ CompareInitIdle /\ StoreInitIdle /\ SessInitIdle

SpecAuth == InitAuth /\ [][AuthNext]_vars

\* the share handler alone
InitShare == ShareInit /\ TokenInit /\ ImportTablesIdle /\ SyncInitIdle /\ ExportInitIdle
             /\ AuthInitIdle /\ ClientInitIdle /\ CompareInitIdle /\ StoreInitIdle /\ SessInitIdle

SpecShare == InitShare /\ [][ShareNext]_vars

\* the Zoom client calls and their callers alone
InitClient == ClientInitIdle /\ TokenInit /\ ImportInitIdle /\ AnalyzeInitIdle /\ SyncInitIdle
              /\ ExportInitIdle /\ AuthInitIdle /\ ShareInitIdle /\ CompareInitIdle /\ StoreInitIdle /\ SessInitIdle

SpecClient == InitClient /\ [][ClientNext]_vars

\* the single and the batch import side by side
InitCompare == CompareInitIdle /\ TokenInit /\ ImportInitIdle /\ AnalyzeInitIdle /\ SyncInitIdle
               /\ ExportInitIdle /\ AuthInitIdle /\ ShareInitIdle /\ ClientInitIdle /\ StoreInitIdle /\ SessInitIdle

SpecCompare == InitCompare /\ [][CompareNext]_vars

\* Recording storage under import, delete and cleanup
InitStore == StoreInitIdle /\ TokenInit /\ ImportInitIdle /\ AnalyzeInitIdle /\ SyncInitIdle /\ ExportInitIdle /\ AuthInitIdle /\ ShareInitIdle /\ ClientInitIdle /\ CompareInitIdle /\ SessInitIdle

SpecStore == InitStore /\ [][StoreNext]_vars

\* Sessions and e-mail verification
InitSess == SessInitIdle /\ TokenInit /\ ImportInitIdle /\ AnalyzeInitIdle /\ SyncInitIdle /\ ExportInitIdle /\ AuthInitIdle /\ ShareInitIdle /\ ClientInitIdle /\ CompareInitIdle /\ StoreInitIdle

SpecSess == InitSess /\ [][SessNext]_vars

(* C1: a getValidAccessToken call that returns a token returns one whose    *)
(* recorded tokenExpiresAt is after the time of the call; when the stored   *)
(* expiry was at or before the call time the returned token is the access   *)
(* token the provider just issued, and the User row was updated with the    *)
(* new access token, the new refresh token and the new expiry.              *)
C1_NoExpiredTokenReturned ==
  \A c \in Calls :
    (call[c].pc = "done" /\ call[c].result = "token") =>
       /\ call[c].retExpiry > call[c].at
       /\ (call[c].snap.tokenExpiresAt # NULL /\ call[c].snap.tokenExpiresAt <= call[c].at)
            => /\ call[c].ret = call[c].tokens.access_token
               /\ call[c].ret # call[c].snap.accessToken
               /\ call[c].wrote.accessToken = call[c].tokens.access_token
               /\ call[c].wrote.refreshToken = call[c].tokens.refresh_token
               /\ call[c].wrote.tokenExpiresAt > call[c].at
               /\ call[c].wrote.tokenExpiresAt = call[c].retExpiry

C1_Witness ==
  \E c \in Calls :
    /\ call[c].pc = "done" /\ call[c].result = "token"
    /\ call[c].snap.tokenExpiresAt # NULL
    /\ call[c].snap.tokenExpiresAt <= call[c].at
    /\ users[call[c].user].accessToken = call[c].ret

(* C7: once the provider has rotated a user's refresh token, no later or    *)
(* concurrent getValidAccessToken call sends the rotated (stale) refresh    *)
(* token to the provider.                                                   *)
C7_NoStaleRefreshTokenSent ==
  \A c \in Calls : ~ call[c].sentStale

(* C2: no two Recording rows have the same pair (meetingId, downloadUrl).   *)
C2_NoDuplicateRecording ==
  \A a, b \in recordings :
    (a.meetingId = b.meetingId /\ a.downloadUrl = b.downloadUrl) => a = b

\* how often index i occurs in a result list
Occurrences(list, i) == Cardinality({k \in DOMAIN list : list[k].i = i})

C5_EachFileInExactlyOneList ==
  \A p \in Procs :
    (imp[p].kind = "single" /\ imp[p].pc = "done" /\ imp[p].list # <<>>) =>
       /\ imp[p].status = "ok"
       /\ \A i \in DOMAIN imp[p].list :
            IF FileTypeOf(imp[p].list[i]) \in imp[p].types /\ imp[p].list[i] \notin imp[p].snap
              THEN Occurrences(imp[p].imported, i) + Occurrences(imp[p].errors, i) = 1
              ELSE Occurrences(imp[p].imported, i) + Occurrences(imp[p].errors, i) = 0

(* C6: every Recording row and every entry of an imported list refers to a  *)
(* file whose write had completed before; a failed write leaves no entry in *)
(* imported for that file.                                                  *)
C6_WriteThenRecord ==
  /\ \A r \in recordings : r.fileUrl \in written /\ r.fileUrl \in DOMAIN files
  /\ \A p \in Procs :
       /\ \A k \in DOMAIN imp[p].imported :
            /\ imp[p].imported[k].fileUrl \in written
            /\ \E r \in recordings : r.id = imp[p].imported[k].id
                                      /\ r.fileUrl = imp[p].imported[k].fileUrl
       /\ \A k \in DOMAIN imp[p].errors :
            imp[p].errors[k].error = "Failed to store recording file"
              => Occurrences(imp[p].imported, imp[p].errors[k].i) = 0

C6_Witness ==
  /\ recordings # {}
  /\ \E p \in Procs :
       /\ imp[p].pc = "crashed"
       /\ imp[p].fileUrl \in written
       /\ \A r \in recordings : r.fileUrl # imp[p].fileUrl
  /\ \E p \in Procs : \E k \in DOMAIN imp[p].errors :
       imp[p].errors[k].error = "Failed to store recording file"

\* Task rows of a meeting that an analysis created (manual tasks have id 0)
AnalysisTasks(m) == {t \in tasks : t.meetingId = m /\ t.id >= 1}

WellFormedCount(items) == Cardinality({k \in DOMAIN items : WellFormed(items[k])})

\* sum, over the requests ps that got as far as the Task insert for meeting m
\* without a database failure, of the number of (well-formed) items returned
RECURSIVE ExpectedTasks(_, _, _)
ExpectedTasks(ps, m, onlyWellFormed) ==
  IF ps = {} THEN 0
  ELSE LET p == CHOOSE x \in ps : TRUE
           counts == /\ an[p].pc = "done" /\ an[p].meeting = m
                     /\ an[p].updated /\ an[p].reason # "db"
                     /\ (onlyWellFormed \/ an[p].status = "200")
           n == IF onlyWellFormed THEN WellFormedCount(an[p].items)
                                  ELSE Len(an[p].items)
       IN  (IF counts THEN n ELSE 0) + ExpectedTasks(ps \ {p}, m, onlyWellFormed)

(* C8: an analyze request for a meeting whose transcriptText is absent or   *)
(* empty ends with status 400 without the LLM having been called, without   *)
(* a Task row created and without the Meeting row written; the step that    *)
(* answers 400 leaves the Task and Meeting tables as they were.             *)
C8_Rejected ==
  \A p \in Analyzers :
    (an[p].pc # "idle" /\ an[p].meeting \in Meetings /\ an[p].seen \in {NoString, ""}) =>
       /\ an[p].pc = "done" /\ an[p].status = "400"
       /\ ~ an[p].llmCalled /\ ~ an[p].updated /\ an[p].created = 0

C8_StepChangesNothing ==
  \A p \in Analyzers :
    (an[p].status # "400" /\ an'[p].status = "400") =>
       (tasks' = tasks /\ meetings' = meetings)

C8_NoTranscriptNoAnalysis == [](C8_Rejected) /\ [][C8_StepChangesNothing]_vars

C8_Witness ==
  \E p \in Analyzers :
    /\ an[p].status = "400" /\ an[p].seen = ""
    /\ ManualTask(an[p].meeting) \in tasks

(* C9: a step of an analyze request never removes or changes a Task row; a  *)
(* request that ends with success has added exactly as many Task rows to    *)
(* its meeting as the LLM returned action items, so after n successful      *)
(* requests the meeting has the sum of their item counts more Task rows.    *)
C9_StepOnlyAdds ==
  /\ tasks \subseteq tasks'
  /\ \A p \in Analyzers :
       (an[p].pc # "done" /\ an'[p].pc = "done" /\ an'[p].status = "200") =>
          Cardinality({t \in tasks' : t.meetingId = an[p].meeting})
            = Cardinality({t \in tasks : t.meetingId = an[p].meeting}) + Len(an[p].items)

C9_TaskCount ==
  \A m \in Meetings : Cardinality(AnalysisTasks(m)) = ExpectedTasks(Analyzers, m, FALSE)

C9_AnalysisAppendsTasks == [](C9_TaskCount) /\ [][C9_StepOnlyAdds]_vars

C9_Witness ==
  \E p, q \in Analyzers :
    /\ p # q /\ an[p].meeting = an[q].meeting
    /\ an[p].status = "200" /\ an[q].status = "200"
    /\ Len(an[p].items) = 2 /\ Len(an[q].items) = 2
    /\ Cardinality(AnalysisTasks(an[p].meeting)) = 4
    /\ ManualTask(an[p].meeting) \in tasks

(* C10: when an analysis whose Meeting update succeeded returned action     *)
(* items and no database failure occurred, a Task row exists for every      *)
(* well-formed item of the batch, also when another item of the batch is    *)
(* malformed.                                                               *)
C10_MalformedItemFailsAlone ==
  \A m \in Meetings : Cardinality(AnalysisTasks(m)) = ExpectedTasks(Analyzers, m, TRUE)

(* C4: no two Meeting rows share the same zoomMeetingId; a create attempted *)
(* for a zoomMeetingId that already has a row changes no Meeting row and    *)
(* adds one entry to the errors of the request.                             *)
C4_Unique ==
  \A a, b \in DOMAIN meetings :
    a # b => meetings[a].zoomMeetingId # meetings[b].zoomMeetingId

C4_DuplicateInsertReported ==
  \A p \in SyncProcs :
    LET target == IF sy[p].pc = "create" THEN sy[p].page[sy[p].j]
                  ELSE IF sy[p].pc = "csvCreate" THEN sy[p].row.meeting_id
                  ELSE NoId
    IN  ( /\ target # NoId
          /\ \E k \in DOMAIN meetings : meetings[k].zoomMeetingId = target
          /\ sy'[p] # sy[p] )
        => /\ meetings' = meetings
           /\ Len(sy'[p].errors) = Len(sy[p].errors) + 1

C4_UniqueZoomMeetingId == [](C4_Unique) /\ [][C4_DuplicateInsertReported]_vars

C4_Witness ==
  /\ Cardinality(DOMAIN meetings) >= 2
  /\ \E p \in SyncProcs :
       /\ sy[p].kind = "sync"
       /\ \E k \in DOMAIN sy[p].errors :
            /\ sy[p].errors[k].error = "create failed"
            /\ \E a \in DOMAIN meetings : meetings[a].zoomMeetingId = sy[p].errors[k].id
  /\ \E p \in SyncProcs : sy[p].kind = "csv" /\ sy[p].processed # <<>>

(* C11: an artifact written for a request with includeTranscript false has *)
(* no transcript section, whatever the format and the other include flags, *)
(* and the file the export wrote holds that artifact.                      *)
C11_NoTranscriptUnlessIncluded ==
  \A p \in Exporters :
    (ex[p].pc \in {"record", "done"} /\ ex[p].fileName # NoName
       /\ ~ ex[p].options.includeTranscript)
    => /\ ex[p].artifact.transcript = NoString
       /\ exFiles[ex[p].fileName].transcript = NoString

C11_Witness ==
  \E p \in Exporters :
    /\ ex[p].status = "200" /\ ~ ex[p].options.includeTranscript
    /\ ex[p].options.includeSummary /\ ex[p].artifact.summary # NULL
    /\ meetings[ex[p].meeting].transcriptText = "transcript"
    /\ ex[p].fileName \in DOMAIN exFiles

(* C12: a request to a Zoom-gated endpoint by a user whose zoomConnected  *)
(* flag was false when the request arrived is answered 403, and neither   *)
(* the provider was called nor a row written for it.                      *)
C12_NotConnectedIsRefused ==
  \A p \in GatedProcs :
    (gate[p].pc # "idle" /\ ~ gate[p].flag)
    => /\ gate[p].pc = "done"
       /\ gate[p].status = "403"
       /\ ~ gate[p].provider
       /\ ~ gate[p].wrote

\* no file of the provider's list has a requested type
NoneRequested(list, types) == \A k \in DOMAIN list : FileTypeOf(list[k]) \notin types

\* a request is at a file only when the file's type is requested
C13_AtRequestedFilesOnly ==
  \A p \in Procs :
    LET r == imp[p]
    IN  /\ r.pc \in {"check", "download", "store", "record", "update", "crashed"}
           => r.i \in DOMAIN r.list /\ FileTypeOf(CurUrl(r)) \in r.types
        /\ (r.kind = "single" /\ r.pc = "done" /\ r.status = "ok"
              /\ NoneRequested(r.list, r.types))
           => r.imported = <<>> /\ r.errors = <<>>

\* a step of a single import whose provider list has no requested type
\* writes no file and no row
C13_StepWritesNothing ==
  \A p \in Procs :
    (imp'[p] # imp[p] /\ imp'[p].kind = "single" /\ imp'[p].mlist # <<>>
       /\ NoneRequested(provFiles[imp'[p].mlist[1]], imp'[p].types))
    => /\ UNCHANGED <<recordings, nextRecId, files, written, meetings>>
       /\ imp'[p].pc \in {"meta", "done"}

(* C13: in a recording import a download is attempted only for provider   *)
(* files whose type is requested; a single import whose provider list has *)
(* no file of a requested type returns with imported and errors empty,    *)
(* and none of its steps downloads, writes a file or writes a row.        *)
C13_TypeFilterBeforeDownload ==
  [](C13_AtRequestedFilesOnly) /\ [][C13_StepWritesNothing]_vars

C13_Witness ==
  \E p \in Procs :
    /\ imp[p].kind = "single" /\ imp[p].pc = "done" /\ imp[p].status = "ok"
    /\ Len(imp[p].list) > 0
    /\ NoneRequested(imp[p].list, imp[p].types)
    /\ imp[p].imported = <<>> /\ imp[p].errors = <<>>
    /\ recordings = {} /\ written = {}

\* a data row without a topic, a date or a transcript value
LacksValue(row) == "" \in {row.topic, row.date, row.transcript}

\* the error entries of request r for data row i
RowErrors(r, i) == {k \in DOMAIN r.errors : r.errors[k].row = i}

\* the data rows the row loop of request r is finished with
RowsDone(r) == IF r.pc \in {"csvRow", "done"} THEN 1..r.i ELSE 1..(r.i - 1)

RowHasMeeting(r, i) == \E k \in DOMAIN r.processed : r.processed[k] = i

CreateErrors == {"Invalid Date", "Unique constraint failed", "create failed"}

\* row i of request r was skipped: one entry, no Meeting row
RowSkipped(r, i) ==
  /\ ~ RowHasMeeting(r, i)
  /\ \E k \in DOMAIN r.errors :
       RowErrors(r, i) = {k} /\ r.errors[k].error = "Missing required data"

\* the insert of row i of request r was rejected: one entry, no Meeting row
RowRejected(r, i) ==
  /\ ~ RowHasMeeting(r, i)
  /\ \E k \in DOMAIN r.errors :
       RowErrors(r, i) = {k} /\ r.errors[k].error \in CreateErrors

C14_RowOutcomes ==
  \A p \in CsvProcs :
    LET r == sy[p]
    IN  r.kind = "csv" =>
          /\ \A i \in RowsDone(r) :
               RowSkipped(r, i) \/ RowRejected(r, i) \/ RowHasMeeting(r, i)
          /\ r.pc \in {"csvCreate", "csvLLM", "csvUpdate", "csvTasks"}
               => ~ LacksValue(r.row)

\* the step that parses a data row either skips it with one entry, or goes on
\* to the insert, whatever the rows before it were
C14_RowStep ==
  \A p \in CsvProcs :
    (sy[p].pc = "csvRow" /\ sy'[p] # sy[p])
    => /\ meetings' = meetings
       /\ sy'[p].processed = sy[p].processed
       /\ \/ /\ sy'[p].pc = "csvCreate"
             /\ sy'[p].errors = sy[p].errors
          \/ /\ sy'[p].pc \in {"csvRow", "done"}
             /\ sy'[p].errors = Append(sy[p].errors,
                                       [row |-> sy[p].i + 1, error |-> "Missing required data"])

\* the insert step either adds one Meeting row and marks the row processed,
\* or adds one entry to the error list and no Meeting row
C14_CreateStep ==
  \A p \in CsvProcs :
    (sy[p].pc = "csvCreate" /\ sy'[p] # sy[p])
    => \/ /\ Cardinality(DOMAIN meetings') = Cardinality(DOMAIN meetings) + 1
          /\ sy'[p].processed = Append(sy[p].processed, sy[p].i)
          /\ sy'[p].errors = sy[p].errors
       \/ /\ meetings' = meetings
          /\ sy'[p].processed = sy[p].processed
          /\ Len(sy'[p].errors) = Len(sy[p].errors) + 1

(* C14 as stated: in a CSV upload a row lacking a topic, date or          *)
(* transcript value is skipped with one error entry, and every other row  *)
(* produces a Meeting row unless the database fails.                      *)
C14_EveryCompleteRowCreated ==
  \A p \in CsvProcs :
    \A i \in RowsDone(sy[p]) :
      \/ RowHasMeeting(sy[p], i)
      \/ RowSkipped(sy[p], i)
      \/ \A k \in RowErrors(sy[p], i) : sy[p].errors[k].error = "create failed"

(* C14 amended: in a CSV upload a row lacking a topic, date or transcript *)
(* value is skipped with one error entry and no Meeting row; every other  *)
(* row is inserted whatever the rows before it were, and either has a     *)
(* Meeting row or, when its insert was rejected (unparsable date,         *)
(* meeting_id already taken, database failure), one error entry.          *)
C14_RowsFailAlone == [](C14_RowOutcomes) /\ [][C14_RowStep /\ C14_CreateStep]_vars

C14_Witness ==
  \E p \in CsvProcs :
    /\ sy[p].pc = "done" /\ sy[p].status = "200" /\ sy[p].nrows = 2
    /\ RowSkipped(sy[p], 1)
    /\ RowHasMeeting(sy[p], 2)
    /\ Cardinality(DOMAIN meetings) = 1

(* C15: a share request with both e-mail recipients and a Slack channel   *)
(* that has returned has attempted each send exactly once, whatever the   *)
(* outcome of the other, and the response reports every failure.          *)
C15_BothChannelsAttempted ==
  \A p \in Sharers :
    (sh[p].pc = "done" /\ sh[p].recipients /\ sh[p].channel)
    => /\ sh[p].emailTries = 1
       /\ sh[p].slackTries = 1
       /\ sh[p].emailFailed \/ sh[p].slackFailed => sh[p].status = "500"

\* a client call of request r in which the token refresh failed
RefreshFailedIn(r) == \E k \in DOMAIN r.log : r.log[k].token = "refresh_failed"

\* the response tells the client to reconnect the Zoom account
ReconnectResponse(r) ==
  /\ ~ r.success
  /\ r.status \notin {"200", "500"}
  /\ r.message \in {"Failed to refresh access token", "Zoom re-authentication required"}

(* C16: a request during which the Zoom token refresh failed is answered  *)
(* with the reconnect condition: not a success response and not the       *)
(* generic 500 failure.                                                   *)
C16_RefreshFailureAsksReconnect ==
  \A p \in Clients :
    (zc[p].pc = "done" /\ RefreshFailedIn(zc[p])) => ReconnectResponse(zc[p])

\* a client call of request r in which the provider rejected the access token
TokenRejectedIn(r) == \E k \in DOMAIN r.log : r.log[k].provider = "401"

(* C17: a Zoom client call whose access token the provider rejects fails  *)
(* with Unauthorized (401), and the request that made it is answered with *)
(* a re-authentication outcome: not a success, not a generic 500, not a   *)
(* not-found or empty result.                                             *)
C17_RejectedTokenIsUnauthorized ==
  \A p \in Clients :
    /\ \A k \in DOMAIN zc[p].log :
         zc[p].log[k].provider = "401" => zc[p].log[k].result = "401"
    /\ (zc[p].pc = "done" /\ TokenRejectedIn(zc[p]))
       => ~ zc[p].success /\ zc[p].status = "401"

(* C18: a User row has an accessToken or a refreshToken only if its       *)
(* zoomConnected flag is true.                                            *)
C18_TokensOnlyWhenConnected ==
  \A u \in AuthUsers :
    (acct[u].exists /\ (acct[u].accessToken # NULL \/ acct[u].refreshToken # NULL))
    => acct[u].zoomConnected

\* the state of the last callback is one GET /auth/zoom handed to its caller
StateIssuedToCaller(c) ==
  c.issued /\ StateParses(c.state) /\ StateUserId(c.state) = c.caller

(* C19: the Zoom OAuth callback stores provider tokens only on the        *)
(* authenticated caller and only for a state that was issued to that      *)
(* caller; any other callback is rejected and changes no User row.        *)
C19_CallbackStateIsValidated ==
  /\ cb.changed # 0 => cb.changed = cb.caller
  /\ (cb.caller # 0 /\ ~ StateIssuedToCaller(cb)) => cb.changed = 0 /\ cb.status # "200"

\* a step changes the recordingUrl of a meeting only from null, and only as
\* the update of an import that is at an MP4 file
C20_StepKeepsRecordingUrl ==
  \A m \in Meetings :
    meetings'[m].recordingUrl # meetings[m].recordingUrl
    => /\ meetings[m].recordingUrl = NoName
       /\ \E p \in Procs :
            /\ imp[p].pc = "update" /\ imp'[p] # imp[p]
            /\ CurMeeting(imp[p]) = m
            /\ FileTypeOf(CurUrl(imp[p])) = "MP4"

(* C20: a recording import changes a Meeting's recordingUrl only for an   *)
(* MP4 file and only when the Meeting has no recordingUrl at that moment; *)
(* a non-null recordingUrl is never overwritten by an import.             *)
C20_RecordingUrlSetOnce == [][C20_StepKeepsRecordingUrl]_vars

(* C21: run on one meeting from the same database state, against the same *)
(* provider list and requested types, the batch import leaves the same    *)
(* Recording rows and the same recordingUrl as the single import, and     *)
(* reports the same files as imported and as failed.                      *)
C21_BatchEqualsSingle ==
  cmp.pc = "done" => cmp.batch = cmp.single

(* C22: every stored recording gets a name of its own: an import never writes
   over a file that a Recording row already refers to, whatever the meetings,
   file types and timestamps of the two files, the same millisecond included *)
C22_UniqueFileNames ==
  [][\A n \in DOMAIN disk :
       (n \in DOMAIN disk' /\ \E r \in recRows : r.fileUrl = n)
         => disk'[n].content = disk[n].content]_vars

(* C26: between requests, after any sequence of imports, single deletions and
   cleanup calls, every Recording row refers to a file that exists in storage *)
C26_RowsHaveFiles ==
  op.pc = "idle" => \A r \in recRows : r.fileUrl \in DOMAIN disk

(* C24: no request of one user creates, changes or deletes a Recording row or
   a stored recording file of another user's meeting *)
C24_OthersUntouched ==
  [][\A u \in StoreUsers :
       (op.user # u /\ op'.user # u)
         => /\ {r \in recRows' : MeetingOwner(r.meetingId) = u}
                 = {r \in recRows : MeetingOwner(r.meetingId) = u}
            /\ \A r \in recRows :
                 (MeetingOwner(r.meetingId) = u /\ r.fileUrl \in DOMAIN disk)
                   => (r.fileUrl \in DOMAIN disk' /\ disk'[r.fileUrl] = disk[r.fileUrl])]_vars

\* the sync call of process p has returned and reports no error
SyncReturnedClean(p) ==
  sy[p].kind = "sync" /\ sy[p].pc = "done" /\ sy[p].errors = <<>>

\* the provider announced no page after the last one the call fetched
C23_PagesExhausted ==
  \A p \in SyncProcs : SyncReturnedClean(p) => (sy[p].pageNo >= 1 /\ ~ sy[p].hasNext)

\* every meeting listed on a fetched page has a Meeting row
C23_ListedHaveRows ==
  \A p \in SyncProcs : SyncReturnedClean(p) =>
    \A z \in sy[p].listed : \E k \in DOMAIN meetings : meetings[k].zoomMeetingId = z

\* synced counts exactly the Meeting rows the call creates
C23_SyncedCountsCreates ==
  \A p \in SyncProcs :
    (sy'[p].kind = "sync" /\ sy'[p] # sy[p])
      => sy'[p].synced - sy[p].synced
           = Cardinality(DOMAIN meetings') - Cardinality(DOMAIN meetings)

(* C23: syncMeetings follows the pagination to the last page: when a sync call
   returns with no errors, the provider announced no further page, every
   meeting listed on a page has a Meeting row with its provider id, and synced
   is the number of Meeting rows the call created *)
C23_SyncFollowsPagination ==
  [](C23_PagesExhausted /\ C23_ListedHaveRows) /\ [][C23_SyncedCountsCreates]_vars

\* a clean sync that followed a next page token and created a row on the way
C23_Witness ==
  \E p \in SyncProcs :
    /\ SyncReturnedClean(p)
    /\ sy[p].pageNo = MaxPages
    /\ sy[p].synced >= 1
    /\ Cardinality(sy[p].listed) >= 2

(* C25: an analyze request is all-or-nothing: a request answered with an error
   has written neither the analysis into the Meeting row nor any Task row *)
C25_AnalyzeAllOrNothing ==
  \A p \in Analyzers :
    (an[p].pc = "done" /\ an[p].status = "500") => (~ an[p].updated /\ an[p].created = 0)

(* C27: in a CSV upload no data row is both counted in processed and reported
   in errors: a row reported in errors has left no Meeting row behind *)
C27_RowCountedOnce ==
  \A p \in SyncProcs :
    sy[p].kind = "csv" =>
      \A k \in DOMAIN sy[p].errors :
        \A n \in DOMAIN sy[p].processed : sy[p].processed[n] # sy[p].errors[k].row

(* C28: a Zoom disconnect returns the user to the not-connected state: the
   step that clears a user's zoomUserId leaves the User row with zoomConnected
   false and without access and refresh token *)
C28_DisconnectIsNotConnected ==
  [][\A u \in AuthUsers :
       (acct[u].exists /\ acct[u].zoomUserId # NULL /\ acct'[u].zoomUserId = NULL)
         => /\ ~ acct'[u].zoomConnected
            /\ acct'[u].accessToken = NULL
            /\ acct'[u].refreshToken = NULL]_vars

(* C29: the session refresh issues new tokens only for a token that was issued
   as a refresh token; an access token, or a token that was never issued, is
   answered 401 *)
C29_RefreshNeedsRefreshToken ==
  rr.status = "200" => (rr.given \in toks /\ rr.given.kind = "refresh")

(* C30: verifyOTP succeeds only for a user who is not yet verified and only
   with the code that is the user's most recently issued OTP: at the step in
   which a verification succeeds, the User row is unverified and its OTP is the
   submitted code, so an OTP replaced by a newer one, or any OTP after a
   successful verification, is not accepted *)
C30_OnlyLatestOtpOnce ==
  [][\A p \in Verifiers :
       (vr[p].status # "200" /\ vr'[p].status = "200")
         => /\ ~ su[vr[p].user].emailVerified
            /\ su[vr[p].user].otp = vr[p].code]_vars
====
